---- MODULE Spec2Model ----
(***************************************************************************)
(* zombie-squirrel: cache stores (forest.py, acorns.py), the asset_basics   *)
(* refresh (acorn_helpers/asset_basics.py) and the synchronization          *)
(* orchestrator hide_acorns (sync.py).                                      *)
(*                                                                          *)
(* The specifications share the variables:                                  *)
(*   SpecTree   - one storage backend and its hide / scurry operations      *)
(*   SpecBasics - the asset_basics entity cache against a remote source     *)
(*   SpecSync   - one run of hide_acorns, fan-out worker pool included      *)
(*   SpecQc     - calls of the per-subject qc cache (acorn_helpers/qc.py)   *)
(*   SpecSidecar - the object store under keys that share a sidecar         *)
(*   SpecAcorns - calls of the single-key entity caches                      *)
(*   SpecCodec  - the encoding of structured metric values                   *)
(*   SpecStartup - the selection of the backend when the process starts      *)
(*   SpecPool   - hide calls of several workers, interleaved                 *)
(*   SpecBatches - the batching of the stale identifiers of a refresh        *)
(*   SpecMerge  - list reads over datasets with a column asset_name          *)
(* Each pins the variables of the others.                                   *)
(***************************************************************************)
EXTENDS Naturals, Sequences, FiniteSets, TLC

VARIABLES
    tree,        \* which backend the process selected
    store,       \* the backend's artifacts: artifact name -> dataset / column list
    hidden,      \* history: key -> dataset of the latest hide call, while that call returned
    attempted,   \* history: keys some hide call was issued for
    tree_last,   \* the last store operation and what its caller observed
    ab_cache,    \* the dataset stored under the asset_basics key
    ab_remote,   \* the remote metadata source: identifier -> record or NoRecord
    ab_last,     \* the last asset_basics call and what it did
    pc,          \* hide_acorns: position of the orchestrating thread
    df_basics,   \* hide_acorns: the subject_id column of df_basics, <<>> before line 19
    subject_ids, \* hide_acorns: subject_ids (line 25), <<>> before it is computed
    events,      \* hide_acorns: the refresh calls, their returns and their exceptions
    futures,     \* hide_acorns: the state of the future of each submitted group
    surfaced,    \* hide_acorns: the event of the exception future.result() raised, 0 if none
    fb_next,     \* hide_acorns: position of the sequential fallback in its list
    exc,         \* hide_acorns: the event of the exception that left hide_acorns, 0 if none
    qc_last,     \* the last call of qc: its arguments and what its caller observed
    ac_last,     \* the last call of a single-key entity cache and what it did
    codec,       \* a value, its encoding and the decoding of either
    env,         \* the value of TREE_SPECIES the process was started with
    workers,     \* worker -> the hide call it runs and how far the call got
    batching     \* a list of stale identifiers and the batch queries made for it

treeVars == <<tree, store, hidden, attempted, tree_last>>
basicsVars == <<ab_cache, ab_remote, ab_last>>
syncVars == <<pc, df_basics, subject_ids, events, futures, surfaced, fb_next, exc>>
qcVars == <<qc_last>>
acornVars == <<ac_last>>
\* the variables of the specifications of one unit: codec, start-up, worker pool
unitVars == <<codec, env, workers, batching>>
vars == <<tree, store, hidden, attempted, tree_last, ab_cache, ab_remote, ab_last,
          pc, df_basics, subject_ids, events, futures, surfaced, fb_next, exc, qc_last,
          ac_last, codec, env, workers, batching>>

(***************************************************************************)
(* Bounds of the model.                                                     *)
(***************************************************************************)
MaxAssets == 2
MaxSubjectRows == 3
MaxSubjects == 3

(***************************************************************************)
(* Tabular datasets: an ordered list of column names and the rows.          *)
(***************************************************************************)
ColumnLists == {<<"c1">>, <<"c1", "c2">>}
RowLists == {<<>>, <<1>>, <<2, 1>>}

SeqsUpTo(S, n) == UNION {[1..m -> S] : m \in 0..n}

\* pd.DataFrame(): no columns, no rows
EmptyFrame == [cols |-> <<>>, rows |-> <<>>]

Frames == {EmptyFrame} \cup {[cols |-> c, rows |-> r] : c \in ColumnLists, r \in RowLists}

IsEmpty(df) == Len(df.rows) = 0

\* the same rows in the same order; a row carries its column names
RowEqual(d1, d2) == d1.rows = d2.rows /\ (d1.rows # <<>> => d1.cols = d2.cols)

(***************************************************************************)
(* Artifact naming (utils.py).  Names are sequences of string pieces.       *)
(***************************************************************************)
Keys == {<<"a">>, <<"qc/", "a">>}

prefix_table_name(table_name) == <<"zs_">> \o table_name \o <<".pqt">>

get_s3_cache_path(filename) == <<"application-caches/">> \o filename

\* str.startswith("qc/")
StartsWithQc(table_name) == Len(table_name) > 0 /\ Head(table_name) = "qc/"

\* base_name.replace(".pqt", ".json")
ReplacePqtByJson(name) == [i \in DOMAIN name |-> IF name[i] = ".pqt" THEN ".json" ELSE name[i]]

MetadataJsonKey(table_name) ==
    get_s3_cache_path(
        IF StartsWithQc(table_name)
        THEN <<"zs_qc.json">>
        ELSE ReplacePqtByJson(prefix_table_name(table_name)))

\* a dict: assignment adds the key or overwrites its value
Put(d, name, value) ==
    [n \in DOMAIN d \cup {name} |-> IF n = name THEN value ELSE d[n]]

\* del d[name], when present
Drop(d, name) == [n \in DOMAIN d \ {name} |-> d[n]]

EmptyDict == [n \in {} |-> EmptyFrame]

(***************************************************************************)
(* MemoryTree (forest.py): a dict of table name -> DataFrame.               *)
(***************************************************************************)
\* variant: hide builds a new dict that holds the written dataset alone
MemoryTree_hide_replacing_store(st, table_name, data) == Put(EmptyDict, table_name, data)

\* self._store[table_name] = data
MemoryTree_hide(st, table_name, data) == Put(st, table_name, data)

\* variant: self._store[table_name], a KeyError for a key that is not stored
MemoryTree_scurry_single_subscript(st, table_name) ==
    IF table_name \in DOMAIN st
    THEN [raised |-> FALSE, df |-> st[table_name]]
    ELSE [raised |-> TRUE, df |-> EmptyFrame]

\* self._store.get(table_name, pd.DataFrame())
MemoryTree_scurry_single(st, table_name) ==
    [raised |-> FALSE,
     df |-> IF table_name \in DOMAIN st THEN st[table_name] ELSE EmptyFrame]

(***************************************************************************)
(* S3Tree (forest.py): parquet objects in a bucket, read back by DuckDB.    *)
(* The transport can fail: `fault` names the call that raises.              *)
(***************************************************************************)
S3DataKey(table_name) == get_s3_cache_path(prefix_table_name(table_name))

\* data.to_parquet(buffer, index=False): the columns and the rows, as bytes
ToParquet(data) == [kind |-> "parquet", cols |-> data.cols, rows |-> data.rows]

\* duckdb.query("SELECT * FROM read_parquet(...)").to_df()
ReadParquet(obj) == [cols |-> obj.cols, rows |-> obj.rows]

S3WriteFaults == {"none", "data_put", "meta_put"}

\* variant: a failed sidecar upload is logged and not raised
S3Tree_hide_swallows_sidecar_failure(st, table_name, data, write_metadata, fault) ==
    IF fault = "data_put"
    THEN [raised |-> TRUE, store |-> st]
    ELSE LET st1 == Put(st, S3DataKey(table_name), ToParquet(data))
         IN  IF ~write_metadata \/ fault = "meta_put"
             THEN [raised |-> FALSE, store |-> st1]
             ELSE [raised |-> FALSE,
                   store |-> Put(st1, MetadataJsonKey(table_name),
                                 [columns |-> data.cols])]

\* variant: the sidecar is written whatever write_metadata says
S3Tree_hide_always_sidecar(st, table_name, data, write_metadata, fault) ==
    IF fault = "data_put"
    THEN [raised |-> TRUE, store |-> st]
    ELSE LET st1 == Put(st, S3DataKey(table_name), ToParquet(data))
         IN  IF fault = "meta_put"
             THEN [raised |-> TRUE, store |-> st1]
             ELSE [raised |-> FALSE,
                   store |-> Put(st1, MetadataJsonKey(table_name),
                                 [columns |-> data.cols])]

\* put_object of the parquet bytes, then _write_metadata_json unless suppressed
S3Tree_hide(st, table_name, data, write_metadata, fault) ==
    IF fault = "data_put"
    THEN [raised |-> TRUE, store |-> st]
    ELSE LET st1 == Put(st, S3DataKey(table_name), ToParquet(data))
         IN  IF ~write_metadata
             THEN [raised |-> FALSE, store |-> st1]
             ELSE IF fault = "meta_put"
                  THEN [raised |-> TRUE, store |-> st1]
                  ELSE [raised |-> FALSE,
                        store |-> Put(st1, MetadataJsonKey(table_name),
                                      [columns |-> data.cols])]

\* variant: the read derives its object key without prefix_table_name
S3Tree_scurry_single_unprefixed(st, table_name, read_fails) ==
    IF read_fails \/ get_s3_cache_path(table_name) \notin DOMAIN st
    THEN [raised |-> FALSE, df |-> EmptyFrame]
    ELSE [raised |-> FALSE, df |-> ReadParquet(st[get_s3_cache_path(table_name)])]

\* try: read_parquet of the object, except Exception: warning and pd.DataFrame()
S3Tree_scurry_single(st, table_name, read_fails) ==
    IF read_fails \/ S3DataKey(table_name) \notin DOMAIN st
    THEN [raised |-> FALSE, df |-> EmptyFrame]
    ELSE [raised |-> FALSE, df |-> ReadParquet(st[S3DataKey(table_name)])]

(***************************************************************************)
(* RedshiftAcorn (acorns.py): one warehouse table per key, no exception     *)
(* handling of its own.                                                     *)
(***************************************************************************)
\* rds_client.overwrite_table_with_df(df=data, table_name=prefix_table_name(..))
RedshiftAcorn_hide(st, table_name, data, write_fails) ==
    IF write_fails
    THEN [raised |-> TRUE, store |-> st]
    ELSE [raised |-> FALSE,
          store |-> Put(st, prefix_table_name(table_name), ToParquet(data))]

\* rds_client.read_table(table_name=prefix_table_name(table_name)); the client's
\* error for a failed query or a table that does not exist is not caught
RedshiftAcorn_scurry(st, table_name, read_fails) ==
    IF read_fails \/ prefix_table_name(table_name) \notin DOMAIN st
    THEN [raised |-> TRUE, df |-> EmptyFrame]
    ELSE [raised |-> FALSE, df |-> ReadParquet(st[prefix_table_name(table_name)])]

(***************************************************************************)
(* Reads of a list of keys, and the legacy read helper.                     *)
(***************************************************************************)
MaxKeyList == 2

\* the lists scurry is called with
KeyLists == SeqsUpTo(Keys, MaxKeyList)

RECURSIVE UniqueItems(_)
\* the distinct items of a sequence, in order of first appearance
UniqueItems(seq) ==
    IF seq = <<>> THEN <<>>
    ELSE LET front == UniqueItems(SubSeq(seq, 1, Len(seq) - 1))
             last == seq[Len(seq)]
         IN  IF \E i \in DOMAIN front : front[i] = last THEN front ELSE Append(front, last)

\* df["asset_name"] = tbl_name: the rows of a dataset with the added column
\* asset_name; the assignment replaces the values of a column of that name the
\* dataset already has, and its rows are then records with that field
Tagged(df, table_name) ==
    IF "asset_name" \in {df.cols[c] : c \in DOMAIN df.cols}
    THEN [cols |-> df.cols,
          rows |-> [i \in DOMAIN df.rows |-> [df.rows[i] EXCEPT !.asset_name = table_name]]]
    ELSE [cols |-> df.cols \o <<"asset_name">>,
          rows |-> [i \in DOMAIN df.rows |->
                       [row |-> df.rows[i], asset_name |-> table_name]]]

RECURSIVE ConcatCols(_)
ConcatCols(dfs) == IF dfs = <<>> THEN <<>> ELSE Head(dfs).cols \o ConcatCols(Tail(dfs))

RECURSIVE ConcatRows(_)
ConcatRows(dfs) == IF dfs = <<>> THEN <<>> ELSE Head(dfs).rows \o ConcatRows(Tail(dfs))

RECURSIVE MemoryTree_collect(_, _)
\* lines 225-231: the tagged copy of every listed table that is not empty
MemoryTree_collect(st, table_names) ==
    IF table_names = <<>> THEN <<>>
    ELSE LET df == MemoryTree_scurry_single(st, Head(table_names)).df
             rest == MemoryTree_collect(st, Tail(table_names))
         IN  IF ~IsEmpty(df) THEN <<Tagged(df, Head(table_names))>> \o rest ELSE rest

\* variant: a list that names a table without data yields no data at all
MemoryTree_scurry_multiple_all_or_none(st, table_names) ==
    LET dfs == MemoryTree_collect(st, table_names)
    IN  [raised |-> FALSE,
         df |-> IF dfs = <<>> \/ Len(dfs) < Len(table_names) THEN EmptyFrame
                ELSE [cols |-> UniqueItems(ConcatCols(dfs)), rows |-> ConcatRows(dfs)]]

\* MemoryTree._scurry_multiple: pd.concat(dfs, ignore_index=True), or pd.DataFrame()
\* when no listed table has rows
MemoryTree_scurry_multiple(st, table_names) ==
    LET dfs == MemoryTree_collect(st, table_names)
    IN  [raised |-> FALSE,
         df |-> IF dfs = <<>> THEN EmptyFrame
                ELSE [cols |-> UniqueItems(ConcatCols(dfs)), rows |-> ConcatRows(dfs)]]

\* the query of S3Tree._scurry_multiple raises: no table listed, an object that
\* does not exist, or members of UNION ALL with different numbers of columns
UnionAllFails(st, table_names) ==
    \/ table_names = <<>>
    \/ \E i \in DOMAIN table_names : S3DataKey(table_names[i]) \notin DOMAIN st
    \/ \E i, j \in DOMAIN table_names :
          Len(st[S3DataKey(table_names[i])].cols) # Len(st[S3DataKey(table_names[j])].cols)

\* S3Tree._scurry_multiple: one UNION ALL query over the listed objects inside one
\* try; except Exception: warning and pd.DataFrame()
S3Tree_scurry_multiple(st, table_names, read_fails) ==
    IF read_fails \/ UnionAllFails(st, table_names)
    THEN [raised |-> FALSE, df |-> EmptyFrame]
    ELSE LET dfs == [i \in DOMAIN table_names |->
                        Tagged(ReadParquet(st[S3DataKey(table_names[i])]), table_names[i])]
         IN  [raised |-> FALSE,
              df |-> [cols |-> dfs[1].cols, rows |-> ConcatRows(dfs)]]

\* variant: no try around the read, its exception propagates
rds_get_handle_empty_reraises(out) == out

\* rds_get_handle_empty: try: acorn.scurry(table_name), except Exception: warning
\* and pd.DataFrame()
rds_get_handle_empty(out) ==
    IF out.raised THEN [raised |-> FALSE, df |-> EmptyFrame] ELSE out

(***************************************************************************)
(* Store operations as actions.                                             *)
(***************************************************************************)
NoOp == [op |-> "none", key |-> <<>>, keys |-> <<>>, df |-> EmptyFrame,
         raised |-> FALSE, fault |-> FALSE, write_metadata |-> FALSE]

\* bookkeeping common to every hide call: what the caller observed
AfterHide(table_name, data, write_metadata, out, failed) ==
    /\ store' = out.store
    /\ hidden' = IF out.raised THEN Drop(hidden, table_name) ELSE Put(hidden, table_name, data)
    /\ attempted' = attempted \cup {table_name}
    /\ tree_last' = [op |-> "hide", key |-> table_name, keys |-> <<>>, df |-> EmptyFrame,
                     raised |-> out.raised, fault |-> failed,
                     write_metadata |-> write_metadata]

AfterScurry(table_name, out, faulty) ==
    /\ tree_last' = [op |-> "scurry", key |-> table_name, keys |-> <<>>, df |-> out.df,
                     raised |-> out.raised, fault |-> faulty,
                     write_metadata |-> FALSE]
    /\ UNCHANGED <<store, hidden, attempted>>

\* bookkeeping of a read that is not a plain scurry(key): a list read or a read
\* through rds_get_handle_empty
AfterRead(op, table_name, table_names, out, faulty) ==
    /\ tree_last' = [op |-> op, key |-> table_name, keys |-> table_names, df |-> out.df,
                     raised |-> out.raised, fault |-> faulty,
                     write_metadata |-> FALSE]
    /\ UNCHANGED <<store, hidden, attempted>>

MemoryTreeHide ==
    /\ tree = "memory"
    /\ \E k \in Keys, d \in Frames, wm \in BOOLEAN :
          AfterHide(k, d, wm,
                    [raised |-> FALSE, store |-> MemoryTree_hide(store, k, d)], FALSE)
    /\ UNCHANGED <<tree, basicsVars, syncVars, qcVars, acornVars, unitVars>>

MemoryTreeScurry ==
    /\ tree = "memory"
    /\ \E k \in Keys : AfterScurry(k, MemoryTree_scurry_single(store, k), FALSE)
    /\ UNCHANGED <<tree, basicsVars, syncVars, qcVars, acornVars, unitVars>>

\* S3Tree.hide called with a key and a dataset of the given sets
S3TreeHideOver(keys, frames) ==
    /\ tree = "s3"
    /\ \E k \in keys, d \in frames, wm \in BOOLEAN, f \in S3WriteFaults :
          \* a fault of the sidecar upload is met only when the sidecar is written
          /\ (f = "meta_put" => wm)
          /\ AfterHide(k, d, wm, S3Tree_hide(store, k, d, wm, f), f # "none")
    /\ UNCHANGED <<tree, basicsVars, syncVars, qcVars, acornVars, unitVars>>

\* S3Tree.scurry called with a key of the given set
S3TreeScurryOver(keys) ==
    /\ tree = "s3"
    /\ \E k \in keys, f \in BOOLEAN :
          AfterScurry(k, S3Tree_scurry_single(store, k, f), f)
    /\ UNCHANGED <<tree, basicsVars, syncVars, qcVars, acornVars, unitVars>>

S3TreeHide == S3TreeHideOver(Keys, Frames)

S3TreeScurry == S3TreeScurryOver(Keys)

RedshiftAcornHide ==
    /\ tree = "redshift"
    /\ \E k \in Keys, d \in Frames, f \in BOOLEAN :
          AfterHide(k, d, TRUE, RedshiftAcorn_hide(store, k, d, f), f)
    /\ UNCHANGED <<tree, basicsVars, syncVars, qcVars, acornVars, unitVars>>

RedshiftAcornScurry ==
    /\ tree = "redshift"
    /\ \E k \in Keys, f \in BOOLEAN :
          AfterScurry(k, RedshiftAcorn_scurry(store, k, f), f)
    /\ UNCHANGED <<tree, basicsVars, syncVars, qcVars, acornVars, unitVars>>

MemoryTreeScurryMultiple ==
    /\ tree = "memory"
    /\ \E ks \in KeyLists :
          AfterRead("scurry_multiple", <<>>, ks, MemoryTree_scurry_multiple(store, ks), FALSE)
    /\ UNCHANGED <<tree, basicsVars, syncVars, qcVars, acornVars, unitVars>>

S3TreeScurryMultiple ==
    /\ tree = "s3"
    /\ \E ks \in KeyLists, f \in BOOLEAN :
          AfterRead("scurry_multiple", <<>>, ks, S3Tree_scurry_multiple(store, ks, f), f)
    /\ UNCHANGED <<tree, basicsVars, syncVars, qcVars, acornVars, unitVars>>

\* rds_get_handle_empty(acorn, table_name) over the backend the process selected
RdsGetHandleEmpty ==
    /\ \E k \in Keys, f \in BOOLEAN :
          LET out == CASE tree = "memory" -> MemoryTree_scurry_single(store, k)
                       [] tree = "s3" -> S3Tree_scurry_single(store, k, f)
                       [] OTHER -> RedshiftAcorn_scurry(store, k, f)
          IN  /\ tree = "memory" => ~f
              /\ AfterRead("rds_get", k, <<>>, rds_get_handle_empty(out), f)
    /\ UNCHANGED <<tree, basicsVars, syncVars, qcVars, acornVars, unitVars>>

(***************************************************************************)
(* Values the specifications pin the other components to.                   *)
(***************************************************************************)
\* the remote source answers every query with no record
NoRemote == [upn |-> <<>>, usi |-> <<>>, d2r |-> <<>>, r2d |-> [raw |-> <<>>, derived |-> <<>>]]

\* no single-key entity cache was called yet
NoAcornCall ==
    [acorn |-> "none", force_update |-> FALSE, remote |-> NoRemote, read_failed |-> FALSE,
     fault |-> FALSE, raised |-> FALSE, error |-> <<>>, queried |-> FALSE,
     wrote |-> FALSE, stored |-> EmptyFrame, cached |-> EmptyFrame, df |-> EmptyFrame,
     value |-> <<>>]

TreeIdle ==
    /\ tree = "memory"
    /\ store = EmptyDict
    /\ hidden = EmptyDict
    /\ attempted = {}
    /\ tree_last = NoOp

BasicsIdle ==
    /\ ab_cache = <<>>
    /\ ab_remote = EmptyDict
    /\ ab_last = [op |-> "none"]

QcIdle ==
    qc_last = [called |-> FALSE, subject_id |-> "-",
               asset_names |-> [type |-> "none", value |-> <<>>],
               force_update |-> FALSE, write_metadata |-> "absent", fault |-> FALSE,
               raised |-> FALSE, type_error |-> FALSE, df |-> EmptyFrame,
               cached |-> EmptyFrame, fetched |-> EmptyFrame, warned |-> <<>>,
               logged_error |-> FALSE, queried |-> FALSE, data_written |-> FALSE,
               sidecar_written |-> FALSE]

AcornIdle == ac_last = NoAcornCall

\* no value was encoded, the start-up is not modelled, no worker runs a call
NoCodec == [stage |-> "none"]

NotRead == [set |-> FALSE, value |-> <<"-">>]

Workers == {"w1", "w2"}

IdleWorker ==
    [pc |-> "idle", key |-> <<>>, data |-> EmptyFrame, write_metadata |-> FALSE,
     fault |-> "none"]

NoBatching == [stage |-> "none"]

UnitsIdle ==
    /\ codec = NoCodec
    /\ env = NotRead
    /\ workers = [w \in Workers |-> IdleWorker]
    /\ batching = NoBatching

SyncIdle ==
    /\ pc = "idle"
    /\ df_basics = <<>>
    /\ subject_ids = <<>>
    /\ events = <<>>
    /\ futures = <<>>
    /\ surfaced = 0
    /\ fb_next = 0
    /\ exc = 0

(***************************************************************************)
(* SpecTree: the process selects one backend (TREE / ACORN) at start-up and *)
(* its callers hide and scurry.                                             *)
(***************************************************************************)
TreeInit ==
    /\ tree \in {"memory", "s3", "redshift"}
    /\ store = EmptyDict
    /\ hidden = EmptyDict
    /\ attempted = {}
    /\ tree_last = NoOp
    /\ BasicsIdle
    /\ SyncIdle
    /\ QcIdle
    /\ AcornIdle
    /\ UnitsIdle

TreeNext ==
    \/ MemoryTreeHide
    \/ MemoryTreeScurry
    \/ S3TreeHide
    \/ S3TreeScurry
    \/ RedshiftAcornHide
    \/ RedshiftAcornScurry
    \/ MemoryTreeScurryMultiple
    \/ S3TreeScurryMultiple
    \/ RdsGetHandleEmpty

SpecTree == TreeInit /\ [][TreeNext]_vars

(***************************************************************************)
(* Claims about the cache store (SpecTree).                                 *)
(***************************************************************************)
\* the last operation was scurry(K) and the latest hide(K, D) returned with no
\* later write to K
ScurryAfterHide ==
    /\ tree_last.op = "scurry"
    /\ tree_last.key \in DOMAIN hidden

\* C1 as stated: round trip in every backend variant - after hide(K, D) has
\* returned and with no later write to K, scurry(K) returns a dataset row-equal to D.
C1_RoundTripEveryBackend ==
    ScurryAfterHide =>
        /\ ~tree_last.raised
        /\ RowEqual(tree_last.df, hidden[tree_last.key])

\* C1 amended: the round trip holds in the in-memory store always, and in the
\* object-store and warehouse variants whenever the read of the artifact does not
\* fail; scurry(K) then returns, with the columns and rows of D.
C1_RoundTripWhenReadSucceeds ==
    (ScurryAfterHide /\ ~tree_last.fault) =>
        /\ ~tree_last.raised
        /\ RowEqual(tree_last.df, hidden[tree_last.key])

\* a read of the object store that returns the rows hidden under its key, while
\* the other key holds another dataset
C1_Witness ==
    /\ tree = "s3"
    /\ ScurryAfterHide
    /\ ~tree_last.fault
    /\ ~IsEmpty(tree_last.df)
    /\ \E k \in Keys :
          /\ k # tree_last.key
          /\ k \in DOMAIN hidden
          /\ ~RowEqual(hidden[k], hidden[tree_last.key])

C15_HideAllOrNothing ==
    [][(tree' = "s3" /\ tree_last'.op = "hide") =>
          IF tree_last'.raised
          THEN store' = store
          ELSE /\ store'[S3DataKey(tree_last'.key)] = ToParquet(hidden'[tree_last'.key])
               /\ tree_last'.write_metadata =>
                     store'[MetadataJsonKey(tree_last'.key)].columns
                        = hidden'[tree_last'.key].cols]_vars

\* the read is one whose underlying read raised: a transport failure, or an object
\* or table that does not exist
ReadRaisedInside ==
    \/ tree_last.fault
    \/ tree = "s3" /\ tree_last.op = "scurry_multiple" /\ UnionAllFails(store, tree_last.keys)
    \/ tree = "redshift" /\ tree_last.op = "rds_get"
          /\ prefix_table_name(tree_last.key) \notin DOMAIN store

\* C17: whenever the underlying read raises, scurry of the object store, for one
\* key or a list of keys, returns the empty dataset and does not raise, and so does
\* rds_get_handle_empty over any backend.
C17_ReadFailureDegradesToEmpty ==
    (/\ \/ tree = "s3" /\ tree_last.op \in {"scurry", "scurry_multiple"}
        \/ tree_last.op = "rds_get"
     /\ ReadRaisedInside) =>
        /\ ~tree_last.raised
        /\ tree_last.df = EmptyFrame

\* rds_get_handle_empty over the warehouse backend, whose read of a table holding
\* rows failed
C17_Witness ==
    /\ tree = "redshift"
    /\ tree_last.op = "rds_get"
    /\ tree_last.fault
    /\ tree_last.key \in DOMAIN hidden
    /\ ~IsEmpty(hidden[tree_last.key])

\* the number of rows the latest hide stored under a key, 0 for a key without data
RowCount(k) == IF k \in DOMAIN hidden THEN Len(hidden[k].rows) ELSE 0

RECURSIVE RowsBefore(_, _)
\* the number of rows stored under the first j - 1 keys of a list
RowsBefore(ks, j) == IF j <= 1 THEN 0 ELSE RowsBefore(ks, j - 1) + RowCount(ks[j - 1])

\* C18: MemoryTree.scurry(list) returns, in list order and then in the row order of
\* each key, the rows of every listed key that has rows, each tagged in asset_name
\* with its key; the number of rows is the sum over the list, and a list without
\* data gives the empty dataset.
C18_ListReadConcatenates ==
    (tree = "memory" /\ tree_last.op = "scurry_multiple") =>
        LET ks == tree_last.keys
            rows == tree_last.df.rows
        IN  /\ ~tree_last.raised
            /\ Len(rows) = RowsBefore(ks, Len(ks) + 1)
            /\ \A j \in DOMAIN ks : \A i \in 1..RowCount(ks[j]) :
                  rows[RowsBefore(ks, j) + i]
                     = [row |-> hidden[ks[j]].rows[i], asset_name |-> ks[j]]
            /\ Len(rows) = 0 => tree_last.df = EmptyFrame

\* a list of two keys, the first with one row and the second with two
C18_Witness ==
    /\ tree = "memory"
    /\ tree_last.op = "scurry_multiple"
    /\ Len(tree_last.keys) = 2
    /\ RowCount(tree_last.keys[1]) = 1
    /\ RowCount(tree_last.keys[2]) = 2
    /\ Len(tree_last.df.rows) = 3

\* the contents of the object store as the in-memory store would hold them
MemoryView(st) ==
    [k \in {k \in Keys : S3DataKey(k) \in DOMAIN st} |-> ReadParquet(st[S3DataKey(k)])]

\* C19: for the same stored contents the object store returns for scurry(list) the
\* rows the in-memory store returns: a listed key without stored data does not
\* remove the rows of the other listed keys.
C19_ListReadSameInEveryBackend ==
    (tree = "s3" /\ tree_last.op = "scurry_multiple" /\ ~tree_last.fault) =>
        RowEqual(tree_last.df,
                 MemoryTree_scurry_multiple(MemoryView(store), tree_last.keys).df)

(***************************************************************************)
(* asset_basics (acorn_helpers/asset_basics.py) against the remote          *)
(* metadata source.  A remote record is [wm, content]: its _last_modified   *)
(* watermark and its other fields; a cached row is the flattened record.    *)
(***************************************************************************)
AllAssetIds == <<"A", "B", "C", "D">>
AssetIdOrder == SubSeq(AllAssetIds, 1, MaxAssets)
AssetIds == {AssetIdOrder[i] : i \in 1..MaxAssets}
Watermarks == {1, 2}
Contents == {"x", "y"}

BATCH_SIZE == 100

Range(seq) == {seq[i] : i \in DOMAIN seq}

\* the records of the source, in the order the source returns them
RemoteRecords(remote) ==
    LET present == SelectSeq(AssetIdOrder, LAMBDA id : id \in DOMAIN remote)
    IN  [k \in 1..Len(present) |->
            [id |-> present[k], wm |-> remote[present[k]].wm,
             content |-> remote[present[k]].content]]

\* retrieve_docdb_records(filter_query={}, projection={_id, _last_modified})
RemoteIndex(remote) ==
    LET recs == RemoteRecords(remote)
    IN  [k \in 1..Len(recs) |-> [id |-> recs[k].id, wm |-> recs[k].wm]]

\* df[df["_id"] == record["_id"]]
CachedRow(df, id) == SelectSeq(df, LAMBDA row : row.id = id)

\* cached_row.empty or cached_row["_last_modified"].values[0] != record["_last_modified"]
IsStale(df, record) ==
    \/ CachedRow(df, record.id) = <<>>
    \/ CachedRow(df, record.id)[1].wm # record.wm

\* the loop over record_ids that appends to keep_ids
KeepIds(df, record_ids) ==
    LET kept == SelectSeq(record_ids, LAMBDA record : IsStale(df, record))
    IN  [k \in 1..Len(kept) |-> kept[k].id]

\* variant: only full batches are requested
Batches_dropping_remainder(keep_ids) ==
    [b \in 1..(Len(keep_ids) \div BATCH_SIZE) |->
        SubSeq(keep_ids, (b - 1) * BATCH_SIZE + 1, b * BATCH_SIZE)]

\* keep_ids[i : i + BATCH_SIZE] for i in range(0, len(keep_ids), BATCH_SIZE)
Batches(keep_ids) ==
    LET n == (Len(keep_ids) + BATCH_SIZE - 1) \div BATCH_SIZE
    IN  [b \in 1..n |->
            SubSeq(keep_ids, (b - 1) * BATCH_SIZE + 1,
                   IF b * BATCH_SIZE < Len(keep_ids) THEN b * BATCH_SIZE ELSE Len(keep_ids))]

\* retrieve_docdb_records(filter_query={"_id": {"$in": batch_ids}}, ...)
FetchBatch(remote, batch_ids) ==
    SelectSeq(RemoteRecords(remote), LAMBDA record : record.id \in Range(batch_ids))

RECURSIVE FetchAll(_, _)
\* asset_records.extend(batch_records), batch after batch
FetchAll(remote, batches) ==
    IF batches = <<>> THEN <<>>
    ELSE FetchBatch(remote, Head(batches)) \o FetchAll(remote, Tail(batches))

\* variant: the flattened row does not carry the watermark of the record
Flatten_without_watermark(record) == [id |-> record.id, wm |-> 0, content |-> record.content]

\* flat_record: _id, _last_modified and the unwrapped fields
Flatten(record) == [id |-> record.id, wm |-> record.wm, content |-> record.content]

\* variant: the refresh works on the cached frame
RefreshFrame_keeping_cache(df) == df

\* df = pd.DataFrame(columns=[...]): the frame the refresh works on has no rows
RefreshFrame(df) == <<>>

\* pd.concat([df[~df["_id"].isin(keep_ids)], new_df], ignore_index=True)
Combine(df, keep_ids, new_df) ==
    SelectSeq(df, LAMBDA row : row.id \notin Range(keep_ids)) \o new_df

\* acorns.NAMES["basics"]
BasicsKey == <<"asset_basics">>

BasicsColumns == <<"_id", "_last_modified", "name">>

\* variant: the refresh catches the exception of hide and returns its dataset
HideOutcomeSwallowed(hide) == FALSE

\* line 151 is a plain call: what hide raises leaves asset_basics
HideOutcome(hide) == hide.raised

\* the remote calls of one refresh are numbered: 1 is the index query of line 78,
\* 1 + b the b-th batch query of line 100; query_fails is the number of the call
\* that raises, 0 when none does
NoQueryFails == 0

\* the record of a call that left before any remote call or write
Untouched(cached, raised) ==
    [raised |-> raised, refreshed |-> FALSE, calls |-> 0, index |-> <<>>,
     batches |-> <<>>, records |-> <<>>, df |-> cached, hide_raised |-> FALSE,
     stored |-> FALSE]

\* variant: the emptied working frame is written before the remote calls are made
QueryRaised_after_write(cached, record_ids, batches, query_fails) ==
    [raised |-> TRUE, refreshed |-> TRUE, calls |-> query_fails, index |-> record_ids,
     batches |-> SubSeq(batches, 1, query_fails - 1), records |-> <<>>, df |-> <<>>,
     hide_raised |-> FALSE, stored |-> TRUE]

\* a refresh whose remote call number query_fails raised: the calls made so far,
\* nothing fetched is kept, TREE.hide is not reached
QueryRaised(cached, record_ids, batches, query_fails) ==
    [raised |-> TRUE, refreshed |-> TRUE, calls |-> query_fails, index |-> record_ids,
     batches |-> SubSeq(batches, 1, query_fails - 1), records |-> <<>>, df |-> cached,
     hide_raised |-> FALSE, stored |-> FALSE]

\* variant: a refresh over cached rows stores the freshly fetched rows alone
asset_basics_storing_fetched_only(cached, remote, later, force_update, query_fails, fault) ==
    IF cached = <<>> /\ ~force_update
    THEN Untouched(cached, TRUE)
    ELSE IF ~(cached = <<>> \/ force_update)
    THEN Untouched(cached, FALSE)
    ELSE IF query_fails = 1
    THEN QueryRaised(cached, <<>>, <<>>, 1)
    ELSE LET record_ids == RemoteIndex(remote)
             keep_ids == KeepIds(cached, record_ids)
             batches == Batches(keep_ids)
             asset_records == FetchAll(later, batches)
             new_df == [k \in 1..Len(asset_records) |-> Flatten(asset_records[k])]
             hide == S3Tree_hide(EmptyDict, BasicsKey,
                                 [cols |-> BasicsColumns, rows |-> new_df], TRUE, fault)
         IN  IF query_fails > 1 /\ query_fails <= 1 + Len(batches)
             THEN QueryRaised(cached, record_ids, batches, query_fails)
             ELSE [raised |-> HideOutcome(hide), refreshed |-> TRUE,
                   calls |-> 1 + Len(batches), index |-> record_ids,
                   batches |-> batches, records |-> asset_records, df |-> new_df,
                   hide_raised |-> hide.raised,
                   stored |-> S3DataKey(BasicsKey) \in DOMAIN hide.store]

\* the whole call: what it raises, requests, writes and returns.  `remote` is the
\* source as the index query sees it, `later` as the batch queries see it;
\* `fault` names the upload of TREE.hide that fails, if any
asset_basics(cached, remote, later, force_update, query_fails, fault) ==
    IF cached = <<>> /\ ~force_update
    THEN Untouched(cached, TRUE)
    ELSE IF ~(cached = <<>> \/ force_update)
    THEN Untouched(cached, FALSE)
    ELSE IF query_fails = 1
    THEN QueryRaised(cached, <<>>, <<>>, 1)
    ELSE LET df == RefreshFrame(cached)
             record_ids == RemoteIndex(remote)
             keep_ids == KeepIds(df, record_ids)
             batches == Batches(keep_ids)
             asset_records == FetchAll(later, batches)
             new_df == [k \in 1..Len(asset_records) |-> Flatten(asset_records[k])]
             combined == Combine(df, keep_ids, new_df)
             hide == S3Tree_hide(EmptyDict, BasicsKey,
                                 [cols |-> BasicsColumns, rows |-> combined], TRUE, fault)
         IN  IF query_fails > 1 /\ query_fails <= 1 + Len(batches)
             THEN QueryRaised(cached, record_ids, batches, query_fails)
             ELSE [raised |-> HideOutcome(hide), refreshed |-> TRUE,
                   calls |-> 1 + Len(batches), index |-> record_ids,
                   batches |-> batches, records |-> asset_records, df |-> combined,
                   hide_raised |-> hide.raised,
                   stored |-> S3DataKey(BasicsKey) \in DOMAIN hide.store]

NoCall == [op |-> "none"]

\* the source with the records of `gone` deleted
Without(remote, gone) == [id \in DOMAIN remote \ gone |-> remote[id]]

\* the remote calls of one refresh at most: the index query and the batch queries
\* of a stale list that holds every identifier
MaxCalls == 1 + (MaxAssets + BATCH_SIZE - 1) \div BATCH_SIZE

\* one call of asset_basics; a record of the source may disappear between its
\* index query and its batch queries
AssetBasics ==
    /\ \E force_update \in BOOLEAN, fault \in S3WriteFaults, query_fails \in 0..MaxCalls,
          gone \in {{}} \cup {{id} : id \in DOMAIN ab_remote} :
          \* a fault or a deletion the call does not meet is none: a call without
          \* force_update reaches neither the source nor the store, and a call
          \* whose query raised goes no further
          /\ ~force_update => (fault = "none" /\ query_fails = NoQueryFails /\ gone = {})
          /\ query_fails # NoQueryFails => (fault = "none" /\ gone = {})
          /\ \E out \in {asset_basics(ab_cache, ab_remote, Without(ab_remote, gone),
                                      force_update, query_fails, fault)} :
              /\ query_fails <= out.calls
              /\ ~out.refreshed => fault = "none"
              /\ out.batches = <<>> => gone = {}
              /\ ab_cache' = IF out.stored THEN out.df ELSE ab_cache
              /\ ab_remote' = Without(ab_remote, gone)
              /\ ab_last' = [op |-> "asset_basics", force_update |-> force_update,
                             before |-> ab_cache, raised |-> out.raised,
                             refreshed |-> out.refreshed, index |-> out.index,
                             batches |-> out.batches, records |-> out.records,
                             df |-> out.df, fault |-> fault,
                             query_fails |-> query_fails,
                             hide_raised |-> out.hide_raised, stored |-> out.stored]
    /\ UNCHANGED <<treeVars, syncVars, qcVars, acornVars, unitVars>>

\* the source gains a record or one of its records changes
RemoteUpsert ==
    /\ \E id \in AssetIds, wm \in Watermarks, content \in Contents :
          /\ ~(id \in DOMAIN ab_remote /\ ab_remote[id] = [wm |-> wm, content |-> content])
          /\ ab_remote' = Put(ab_remote, id, [wm |-> wm, content |-> content])
    /\ ab_last' = NoCall
    /\ UNCHANGED <<ab_cache, treeVars, syncVars, qcVars, acornVars, unitVars>>

\* a record disappears from the source
RemoteDelete ==
    /\ \E id \in DOMAIN ab_remote : ab_remote' = Drop(ab_remote, id)
    /\ ab_last' = NoCall
    /\ UNCHANGED <<ab_cache, treeVars, syncVars, qcVars, acornVars, unitVars>>

BasicsInit ==
    /\ ab_cache = <<>>
    /\ ab_remote = EmptyDict
    /\ ab_last = NoCall
    /\ TreeIdle
    /\ SyncIdle
    /\ QcIdle
    /\ AcornIdle
    /\ UnitsIdle

BasicsNext ==
    \/ AssetBasics
    \/ RemoteUpsert
    \/ RemoteDelete

SpecBasics == BasicsInit /\ [][BasicsNext]_vars

(***************************************************************************)
(* Claims about the incremental refresh (SpecBasics).                       *)
(***************************************************************************)
\* the identifiers sent in the batched full-field queries of the last call
RequestedIds == UNION {Range(ab_last.batches[b]) : b \in DOMAIN ab_last.batches}

\* the identifiers of the remote index that are absent from the cache the call
\* read, or whose cached watermark differs from the remote one
StaleIds ==
    {ab_last.index[k].id : k \in {j \in DOMAIN ab_last.index :
                                      IsStale(ab_last.before, ab_last.index[j])}}

ForcedRefreshOverCache ==
    /\ ab_last.op = "asset_basics"
    /\ ab_last.force_update
    /\ ab_last.before # <<>>

\* C3: in a forced refresh over a non-empty cache, the identifiers sent in the
\* batched full-field queries are exactly the stale identifiers.
C3_FetchesExactlyStale == ForcedRefreshOverCache => RequestedIds = StaleIds

\* C4: the snapshot a refresh writes is the cached rows whose identifier is not
\* stale together with the freshly fetched stale rows; a row whose cached watermark
\* equals the remote one is carried over unchanged and is not fetched again.
C4_SnapshotCarriesUnchangedRows ==
    (ab_last.op = "asset_basics" /\ ab_last.refreshed /\ ab_last.fault = "none") =>
        /\ Range(ab_cache) =
              {row \in Range(ab_last.before) : row.id \notin StaleIds}
              \cup {Flatten(record) : record \in
                      {r \in Range(RemoteRecords(ab_remote)) : r.id \in StaleIds}}
        /\ \A k \in DOMAIN ab_last.index :
              ~IsStale(ab_last.before, ab_last.index[k]) =>
                  /\ ab_last.index[k].id \notin RequestedIds
                  /\ CachedRow(ab_last.before, ab_last.index[k].id)[1] \in Range(ab_cache)

\* C16: a failure of the dataset upload or of the sidecar upload inside hide is
\* raised by hide, and the asset_basics refresh whose hide raised raises too
\* instead of returning its dataset.
C16_WriteFailureSurfaces ==
    (ab_last.op = "asset_basics" /\ ab_last.fault # "none") =>
        /\ ab_last.hide_raised
        /\ ab_last.raised

\* a forced refresh over a cache with rows whose sidecar upload failed
C16_Witness ==
    /\ ab_last.op = "asset_basics"
    /\ ab_last.fault = "meta_put"
    /\ ab_last.before # <<>>
    /\ ab_last.df # <<>>
    /\ ab_last.raised

\* a step that is a forced refresh right after a forced refresh that returned,
\* the remote source unchanged in between
SecondRefreshStep ==
    /\ ab_last.op = "asset_basics"
    /\ ab_last.force_update
    /\ ~ab_last.raised
    /\ ab_last'.op = "asset_basics"
    /\ ab_last'.force_update
    /\ ab_remote' = ab_remote

\* C26: two consecutive forced asset_basics refreshes against an unchanged remote
\* source leave the cached dataset content-equal: the same set of rows before and
\* after the second refresh.
C26_RefreshIdempotent ==
    [][SecondRefreshStep => Range(ab_cache') = Range(ab_cache)]_vars

\* a forced refresh over a cache of two rows returned and left the same rows
C26_Witness ==
    /\ ab_last.op = "asset_basics"
    /\ ab_last.force_update
    /\ ~ab_last.raised
    /\ Len(ab_last.before) = 2
    /\ Range(ab_last.before) = Range(ab_cache)
    /\ ab_last.index # <<>>

\* the identifiers of the remote index the last call fetched
IndexIds == {ab_last.index[k].id : k \in DOMAIN ab_last.index}

\* the last call was a forced refresh that wrote its snapshot
ForcedRefreshWrote ==
    /\ ab_last.op = "asset_basics"
    /\ ab_last.force_update
    /\ ab_last.stored

\* C31: after a forced asset_basics refresh the written snapshot contains no row
\* whose identifier is absent from the remote index fetched in that refresh, even
\* if the cache held such a row before.
C31_VanishedIdsDropped ==
    ForcedRefreshWrote => \A k \in DOMAIN ab_cache : ab_cache[k].id \in IndexIds

\* a forced refresh wrote a snapshot with rows over a cache that held a row whose
\* identifier had disappeared from the remote index
C31_Witness ==
    /\ ForcedRefreshWrote
    /\ ab_cache # <<>>
    /\ \E k \in DOMAIN ab_last.before : ab_last.before[k].id \notin IndexIds

\* the batch queries of the last call returned exactly one record for each
\* identifier they requested
OneRecordPerRequested ==
    \A id \in RequestedIds :
        Cardinality({k \in DOMAIN ab_last.records : ab_last.records[k].id = id}) = 1

\* the rows of the stored snapshot that carry the identifier
RowsOf(id) == {k \in DOMAIN ab_cache : ab_cache[k].id = id}

\* C32: when the remote source returns one record for each requested identifier,
\* the snapshot written by a forced asset_basics refresh contains exactly one row
\* per identifier of the remote index, that row's watermark equals the remote
\* watermark, and no identifier appears in two rows.
C32_FreshAndUnique ==
    (ForcedRefreshWrote /\ OneRecordPerRequested) =>
        /\ \A k \in DOMAIN ab_last.index :
              /\ Cardinality(RowsOf(ab_last.index[k].id)) = 1
              /\ \A r \in RowsOf(ab_last.index[k].id) : ab_cache[r].wm = ab_last.index[k].wm
        /\ \A k \in DOMAIN ab_cache : Cardinality(RowsOf(ab_cache[k].id)) = 1
        /\ Len(ab_cache) = Len(ab_last.index)

\* a forced refresh over a cache that held an older watermark of one identifier
\* and lacked another wrote a snapshot of two rows
C32_Witness ==
    /\ ForcedRefreshWrote
    /\ OneRecordPerRequested
    /\ Len(ab_last.index) = 2
    /\ Len(ab_last.before) = 1
    /\ \E k \in DOMAIN ab_last.index :
          /\ ab_last.index[k].id = ab_last.before[1].id
          /\ ab_last.index[k].wm # ab_last.before[1].wm

\* C34: if a remote call made during a forced asset_basics refresh (the index
\* query or a batch query) raises, the call raises and the dataset stored under
\* the asset_basics key is exactly what it was before the call.
C34_QueryFailureKeepsCache ==
    (ab_last.op = "asset_basics" /\ ab_last.force_update
        /\ ab_last.query_fails # NoQueryFails) =>
        /\ ab_last.raised
        /\ ~ab_last.stored
        /\ ab_cache = ab_last.before

\* a batch query of a forced refresh raised over a cache with rows that differ
\* from the records of the source
C34_Witness ==
    /\ ab_last.op = "asset_basics"
    /\ ab_last.force_update
    /\ ab_last.query_fails = 2
    /\ ab_last.batches # <<>>
    /\ ab_cache # <<>>
    /\ \E k \in DOMAIN ab_cache : \E j \in DOMAIN ab_last.index :
          ab_cache[k].id = ab_last.index[j].id /\ ab_cache[k].wm # ab_last.index[j].wm

(***************************************************************************)
(* hide_acorns (sync.py).  A refresh function of the registry is a call     *)
(* that returns or raises; an event records a call, its return ("ret") or   *)
(* its exception ("exc").  An exception is named by the index of its event. *)
(***************************************************************************)
Null == "None"
AllSubjects == <<"s1", "s2", "s3", "s4", "s5">>
SubjectValues == {AllSubjects[i] : i \in 1..MaxSubjects}

\* the subject_id column of the dataset asset_basics returned
SubjectColumns == SeqsUpTo(SubjectValues \cup {Null}, MaxSubjectRows)

\* Series.dropna()
DropNa(col) == SelectSeq(col, LAMBDA v : v # Null)

RECURSIVE Unique(_)
\* variant: only the first value is kept
Unique_first_only(col) == IF col = <<>> THEN <<>> ELSE <<col[1]>>

\* Series.unique(): the distinct values in order of first appearance
Unique(col) ==
    IF col = <<>> THEN <<>>
    ELSE LET front == Unique(SubSeq(col, 1, Len(col) - 1))
             last == col[Len(col)]
         IN  IF last \in Range(front) THEN front ELSE Append(front, last)

\* variant: missing identifiers are kept
SubjectIdsKeepNull(col) == Unique(col)

\* df_basics["subject_id"].dropna().unique()
SubjectIdsOf(col) == Unique(DropNa(col))

\* the statements of lines 15-22, in order
NonFanOut == <<"upn", "usi", "basics", "d2r", "r2d">>

StageOf(fn) ==
    CASE fn \in {"upn", "usi"} -> 1
      [] fn = "basics" -> 2
      [] fn \in {"d2r", "r2d"} -> 3
      [] OTHER -> 4

\* variant: the dependent mapping caches are refreshed before asset_basics
AfterReturnDependentFirst(fn) ==
    CASE fn = "upn" -> "usi"
      [] fn = "usi" -> "d2r"
      [] fn = "d2r" -> "r2d"
      [] fn = "r2d" -> "basics"
      [] OTHER -> "ids"

\* the statement that follows the call of fn when it returns
AfterReturn(fn) ==
    CASE fn = "upn" -> "usi"
      [] fn = "usi" -> "basics"
      [] fn = "basics" -> "d2r"
      [] fn = "d2r" -> "r2d"
      [] OTHER -> "ids"

\* variant: the call is wrapped in try / except Exception: pass
AfterRaiseSwallowed(fn) == AfterReturn(fn)

\* lines 15-22 stand outside any try block: the exception leaves hide_acorns
AfterRaise(fn) == "raised"

\* variant: every group is submitted to the pool, the first one again
PoolSubjectsAll(ids) == ids

\* subject_ids[1:] of line 40
PoolSubjects(ids) == Tail(ids)

\* variant: subject_ids[2:]
FallbackSubjectsSkipOne(ids) == Tail(Tail(ids))

\* subject_ids[1:] of line 47
FallbackSubjects(ids) == Tail(ids)

\* variant: no try / except around the pool, the exception leaves hide_acorns
OnPoolExceptionReraise == "raised"

\* except Exception: of line 45 leads to the sequential loop of lines 47-48
OnPoolException == "fallback"

Event(kind, fn, subject, write_metadata, by) ==
    [kind |-> kind, fn |-> fn, subject |-> subject, force_update |-> TRUE,
     write_metadata |-> write_metadata, by |-> by]

Outcomes == {"ret", "exc"}

\* ACORN_REGISTRY[NAMES[fn]](force_update=True) for the five statements of lines 15-22
Refresh ==
    /\ pc \in Range(NonFanOut)
    /\ \E outcome \in Outcomes, col \in SubjectColumns :
          /\ (pc # "basics" \/ outcome = "exc") => col = <<>>
          /\ events' = events \o <<Event("call", pc, "-", FALSE, "main"),
                                   Event(outcome, pc, "-", FALSE, "main")>>
          /\ IF outcome = "ret"
             THEN /\ pc' = AfterReturn(pc)
                  /\ df_basics' = IF pc = "basics" THEN col ELSE df_basics
                  /\ exc' = exc
             ELSE /\ pc' = AfterRaise(pc)
                  /\ exc' = IF AfterRaise(pc) = "raised" THEN Len(events) + 2 ELSE exc
                  /\ df_basics' = df_basics
    /\ UNCHANGED <<subject_ids, futures, surfaced, fb_next, treeVars, basicsVars, qcVars, acornVars, unitVars>>

\* lines 25-29: subject_ids, and the return when there is none
ComputeSubjectIds ==
    /\ pc = "ids"
    /\ subject_ids' = SubjectIdsOf(df_basics)
    /\ pc' = IF Len(SubjectIdsOf(df_basics)) = 0 THEN "done" ELSE "qc_first"
    /\ UNCHANGED <<df_basics, events, futures, surfaced, fb_next, exc, treeVars, basicsVars, qcVars, acornVars, unitVars>>

\* variant: the first group's refresh is not awaited before the pool is opened
FirstCallNotAwaited == "submit"

\* line 32 is a plain call: the orchestrating thread is inside it until it ends
FirstCall == "qc_first_running"

\* line 32: qc_acorn(subject_id=subject_ids[0], force_update=True, write_metadata=True)
StartFirst ==
    /\ pc = "qc_first"
    /\ events' = Append(events, Event("call", "qc", subject_ids[1], TRUE, "main"))
    /\ pc' = FirstCall
    /\ UNCHANGED <<df_basics, subject_ids, futures, surfaced, fb_next, exc,
                   treeVars, basicsVars, qcVars, acornVars, unitVars>>

\* the first group's refresh returns or raises; line 35 opens the pool
FinishFirst ==
    /\ pc = "qc_first_running"
    /\ \E outcome \in Outcomes :
          /\ events' = Append(events, Event(outcome, "qc", subject_ids[1], TRUE, "main"))
          /\ IF outcome = "exc"
             THEN pc' = "raised" /\ exc' = Len(events) + 1
             ELSE /\ pc' = IF Len(subject_ids) > 1 THEN "submit" ELSE "done"
                  /\ exc' = exc
    /\ UNCHANGED <<df_basics, subject_ids, futures, surfaced, fb_next, treeVars, basicsVars, qcVars, acornVars, unitVars>>

\* lines 38-41: executor.submit for the next group of the list
Submit ==
    /\ pc = "submit"
    /\ LET todo == PoolSubjects(subject_ids)
       IN  /\ Len(futures) < Len(todo)
           /\ futures' = Append(futures, [subject |-> todo[Len(futures) + 1],
                                          state |-> "pending", event |-> 0])
           /\ pc' = IF Len(futures) + 1 = Len(todo) THEN "as_completed" ELSE "submit"
    /\ UNCHANGED <<df_basics, subject_ids, events, surfaced, fb_next, exc,
                   treeVars, basicsVars, qcVars, acornVars, unitVars>>

\* a pool thread takes a submitted call and starts it
WorkerStart ==
    /\ \E j \in DOMAIN futures :
          /\ futures[j].state = "pending"
          /\ futures' = [futures EXCEPT ![j].state = "running"]
          /\ events' = Append(events,
                              Event("call", "qc", futures[j].subject, FALSE, "worker"))
    /\ UNCHANGED <<pc, df_basics, subject_ids, surfaced, fb_next, exc, treeVars, basicsVars, qcVars, acornVars, unitVars>>

\* the call of a pool thread returns or raises; the future keeps the outcome
WorkerFinish ==
    /\ \E j \in DOMAIN futures, outcome \in Outcomes :
          /\ futures[j].state = "running"
          /\ futures' = [futures EXCEPT ![j].state = outcome,
                                        ![j].event = Len(events) + 1]
          /\ events' = Append(events,
                              Event(outcome, "qc", futures[j].subject, FALSE, "worker"))
    /\ UNCHANGED <<pc, df_basics, subject_ids, surfaced, fb_next, exc, treeVars, basicsVars, qcVars, acornVars, unitVars>>

\* lines 43-44: as_completed yields a finished future and result() returns or raises
ConsumeResult ==
    /\ pc = "as_completed"
    /\ \E j \in DOMAIN futures :
          /\ futures[j].state \in Outcomes
          /\ IF futures[j].state = "ret"
             THEN /\ futures' = [futures EXCEPT ![j].state = "yielded"]
                  /\ surfaced' = surfaced
                  /\ pc' = IF \A i \in DOMAIN futures \ {j} : futures[i].state = "yielded"
                           THEN "shutdown" ELSE "as_completed"
             ELSE /\ futures' = futures
                  /\ surfaced' = futures[j].event
                  /\ pc' = "shutdown"
    /\ UNCHANGED <<df_basics, subject_ids, events, fb_next, exc, treeVars, basicsVars, qcVars, acornVars, unitVars>>

\* variant: the with block is left without waiting for the submitted calls
ShutdownReturns_without_wait(futs) == TRUE

\* ThreadPoolExecutor.__exit__ is shutdown(wait=True): it returns when no submitted
\* call is pending or running
ShutdownReturns(futs) ==
    \A j \in DOMAIN futs : futs[j].state \notin {"pending", "running"}

\* the with block is left; then the function returns or the except clause of
\* line 45 takes over
PoolDrained ==
    /\ pc = "shutdown"
    /\ ShutdownReturns(futures)
    /\ IF surfaced = 0
       THEN pc' = "done" /\ exc' = exc
       ELSE /\ pc' = OnPoolException
            /\ exc' = IF OnPoolException = "raised" THEN surfaced ELSE exc
    /\ fb_next' = IF surfaced = 0 THEN fb_next ELSE 1
    /\ UNCHANGED <<df_basics, subject_ids, events, futures, surfaced, treeVars, basicsVars, qcVars, acornVars, unitVars>>

\* line 48: qc_acorn(subject_id=subject_id, force_update=True, write_metadata=False)
FallbackStart ==
    /\ pc = "fallback"
    /\ IF fb_next > Len(FallbackSubjects(subject_ids))
       THEN pc' = "done" /\ events' = events
       ELSE /\ pc' = "fallback_running"
            /\ events' = Append(events,
                  Event("call", "qc", FallbackSubjects(subject_ids)[fb_next], FALSE,
                        "fallback"))
    /\ UNCHANGED <<df_basics, subject_ids, futures, surfaced, fb_next, exc,
                   treeVars, basicsVars, qcVars, acornVars, unitVars>>

\* the call of the sequential loop returns, or raises and leaves hide_acorns
FallbackFinish ==
    /\ pc = "fallback_running"
    /\ \E outcome \in Outcomes :
          /\ events' = Append(events,
                Event(outcome, "qc", FallbackSubjects(subject_ids)[fb_next], FALSE,
                      "fallback"))
          /\ IF outcome = "exc"
             THEN pc' = "raised" /\ exc' = Len(events) + 1 /\ fb_next' = fb_next
             ELSE pc' = "fallback" /\ exc' = exc /\ fb_next' = fb_next + 1
    /\ UNCHANGED <<df_basics, subject_ids, futures, surfaced, treeVars, basicsVars, qcVars, acornVars, unitVars>>

SyncInit ==
    /\ pc = "upn"
    /\ df_basics = <<>>
    /\ subject_ids = <<>>
    /\ events = <<>>
    /\ futures = <<>>
    /\ surfaced = 0
    /\ fb_next = 0
    /\ exc = 0
    /\ TreeIdle
    /\ BasicsIdle
    /\ QcIdle
    /\ AcornIdle
    /\ UnitsIdle

SyncNext ==
    \/ Refresh
    \/ ComputeSubjectIds
    \/ StartFirst
    \/ FinishFirst
    \/ Submit
    \/ WorkerStart
    \/ WorkerFinish
    \/ ConsumeResult
    \/ PoolDrained
    \/ FallbackStart
    \/ FallbackFinish

SpecSync == SyncInit /\ [][SyncNext]_vars

(***************************************************************************)
(* Claims about the orchestrator (SpecSync).                                *)
(***************************************************************************)
Returned == pc = "done"
Raised == pc = "raised"
Terminated == Returned \/ Raised

CallEvents == {i \in DOMAIN events : events[i].kind = "call"}
ExcEvents == {i \in DOMAIN events : events[i].kind = "exc"}
CallsOf(fn) == {i \in CallEvents : events[i].fn = fn}
QcCallsFor(subject) == {i \in CallsOf("qc") : events[i].subject = subject}
WorkerFailures == {i \in ExcEvents : events[i].by = "worker"}
FallbackFailures == {i \in ExcEvents : events[i].by = "fallback"}

\* the distinct non-null group identifiers of the dataset asset_basics returned
Groups == Range(df_basics) \ {Null}

\* the subjects the sequential fallback has called, in call order
FallbackCalled ==
    LET calls == SelectSeq(events, LAMBDA e : e.kind = "call" /\ e.by = "fallback")
    IN  [k \in 1..Len(calls) |-> calls[k].subject]

IsPrefix(s, t) == Len(s) <= Len(t) /\ s = SubSeq(t, 1, Len(s))

\* the groups after the first, in the order of subject_ids
OtherGroups == IF subject_ids = <<>> THEN <<>> ELSE Tail(subject_ids)

\* C5: when no refresh call fails and the dataset has N >= 1 distinct non-null
\* group identifiers, a run that returns has called the per-group refresh exactly
\* once for each of them, the first call with write_metadata=True and every other
\* with write_metadata=False, whatever the order of the identifiers.
C5_FanOutOncePerGroup ==
    (Returned /\ ExcEvents = {} /\ Groups # {}) =>
        /\ \A g \in Groups : Cardinality(QcCallsFor(g)) = 1
        /\ \A i \in CallsOf("qc") :
              /\ events[i].subject \in Groups
              /\ events[i].force_update
              /\ events[i].write_metadata = (\A j \in CallsOf("qc") : i <= j)
        /\ \A i \in CallsOf("qc") :
              events[i].write_metadata => events[i].subject = DropNa(df_basics)[1]

\* a run without failure over three groups that do not come in sorted order, with
\* a null and a repeated identifier in the column when it is long enough
C5_Witness ==
    /\ Returned
    /\ ExcEvents = {}
    /\ Cardinality(Groups) >= 3
    /\ DropNa(df_basics)[1] = "s2"
    /\ \E i \in CallsOf("qc") : events[i].by = "worker" /\ events[i].subject = "s1"

\* C6 as stated: after a worker failure the sequential fallback refreshes only
\* groups that had not been dispatched to the pool.
C6_FallbackSkipsDispatched ==
    \A k \in DOMAIN FallbackCalled :
        \A j \in DOMAIN futures : futures[j].subject # FallbackCalled[k]

\* C6 amended: after a worker failure the sequential fallback refreshes, in order,
\* every group other than the first; each of them had been dispatched to the pool
\* and its pool call had finished, succeeded or failed; only an exception of a
\* fallback call stops the loop.
C6_FallbackRerunsEveryOtherGroup ==
    /\ IsPrefix(FallbackCalled, OtherGroups)
    /\ (FallbackCalled # <<>> \/ pc = "fallback") => surfaced # 0
    /\ (Returned /\ surfaced # 0) => FallbackCalled = OtherGroups
    /\ (Raised /\ surfaced # 0) =>
          /\ exc \in FallbackFailures
          /\ events[exc].subject = FallbackCalled[Len(FallbackCalled)]
    /\ \A k \in DOMAIN FallbackCalled :
          \E j \in DOMAIN futures :
              /\ futures[j].subject = FallbackCalled[k]
              /\ futures[j].state \in {"ret", "exc", "yielded"}

\* a run that returned through the fallback, which called again a group whose
\* pool call had succeeded
C6_Witness ==
    /\ Returned
    /\ surfaced # 0
    /\ Len(FallbackCalled) >= 2
    /\ \E j \in DOMAIN futures :
          /\ futures[j].state \in {"ret", "yielded"}
          /\ futures[j].subject \in Range(FallbackCalled)

\* C7 as stated: if a group's refresh raises in a pool worker, hide_acorns does
\* not abort; the run returns normally.
C7_WorkerFailureStillReturns == WorkerFailures # {} => ~Raised

\* C7 amended: if a group's refresh raises in a pool worker, hide_acorns does not
\* abort on that exception; it runs the sequential loop over the groups other than
\* the first, returns normally exactly when no call of that loop raises, and
\* otherwise the exception of the sequential call leaves it.
C7_WorkerFailureDegradesToSequential ==
    (WorkerFailures # {} /\ Terminated) =>
        /\ surfaced \in WorkerFailures
        /\ FallbackCalled # <<>>
        /\ Returned <=> FallbackFailures = {}
        /\ Raised => exc \in FallbackFailures

\* a run in which a worker failed and which returned normally after the fallback
C7_Witness ==
    /\ Returned
    /\ WorkerFailures # {}
    /\ FallbackCalled = OtherGroups

\* C8 as stated: the exception of a group's refresh that future.result() surfaced
\* is re-raised to the caller of hide_acorns.
C8_PoolExceptionReraised ==
    (surfaced # 0 /\ Terminated) => (Raised /\ exc = surfaced)

\* C8 amended: the exception that future.result() surfaced is caught and never
\* leaves hide_acorns; the only exceptions that leave it are raised by a call on
\* the orchestrating thread: a non-fan-out refresh, the first group's refresh or
\* a call of the sequential fallback.
C8_PoolExceptionIsCaught ==
    /\ surfaced # 0 =>
          /\ surfaced \in WorkerFailures
          /\ exc # surfaced
          /\ pc \in {"shutdown", "fallback", "fallback_running", "done", "raised"}
    /\ Raised <=> exc # 0
    /\ exc # 0 => (exc \in ExcEvents /\ events[exc].by \in {"main", "fallback"})

\* hide_acorns raised after a worker's exception had surfaced, and the exception
\* that left it comes from another group than the worker's
C8_Witness ==
    /\ Raised
    /\ surfaced # 0
    /\ events[exc].subject # events[surfaced].subject

\* C9: if a non-fan-out refresh (unique_project_names, unique_subject_ids,
\* asset_basics, source_data, raw_to_derived) raises, that exception leaves
\* hide_acorns, the call is not retried and nothing is called after it.
C9_SequentialFailureAborts ==
    \A i \in ExcEvents :
        events[i].fn \in Range(NonFanOut) =>
            /\ Raised
            /\ exc = i
            /\ i = Len(events)
            /\ \A fn \in Range(NonFanOut) : Cardinality(CallsOf(fn)) <= 1
            /\ \A j \in CallEvents :
                  StageOf(events[j].fn) <= StageOf(events[i].fn)

\* source_data raised after asset_basics had returned a dataset with groups
C9_Witness ==
    /\ Raised
    /\ events[exc].fn = "d2r"
    /\ Groups # {}

\* every call is made with force_update=True, a call of a stage comes after the
\* return of every function of the stages before it, and no non-fan-out function
\* is called twice
StageOrder ==
    /\ \A j \in CallEvents :
          /\ events[j].force_update
          /\ \A fn \in Range(NonFanOut) :
                StageOf(fn) < StageOf(events[j].fn) =>
                    \E r \in 1..(j - 1) : events[r].kind = "ret" /\ events[r].fn = fn
    /\ \A fn \in Range(NonFanOut) : Cardinality(CallsOf(fn)) <= 1

\* C10 as stated: in every run the calls come stage after stage and each
\* non-fan-out refresh function is invoked exactly once.
C10_EveryRunCallsEachOnce ==
    /\ StageOrder
    /\ Terminated => \A fn \in Range(NonFanOut) : Cardinality(CallsOf(fn)) = 1

\* C10 amended: in every run the calls come in the order simple caches,
\* asset_basics, dependent mapping caches, per-group fan-out, each after the
\* return of every call of the stages before it and with force_update=True; a
\* non-fan-out function is never called twice, and it is called exactly once in
\* every run in which no non-fan-out refresh raises.
C10_StageOrderEachAtMostOnce ==
    /\ StageOrder
    /\ (Terminated /\ \A i \in ExcEvents : events[i].fn = "qc") =>
          \A fn \in Range(NonFanOut) : Cardinality(CallsOf(fn)) = 1

\* a run that returned after workers refreshed two groups
C10_Witness ==
    /\ Returned
    /\ Cardinality({i \in CallsOf("qc") : events[i].by = "worker"}) >= 2
    /\ \A fn \in Range(NonFanOut) : Cardinality(CallsOf(fn)) = 1

\* the per-group refreshes of the group that were called and have not ended
InProgress(subject) ==
    Cardinality(QcCallsFor(subject))
    - Cardinality({i \in DOMAIN events : /\ events[i].kind \in Outcomes
                                         /\ events[i].fn = "qc"
                                         /\ events[i].subject = subject})

\* C35: in every interleaving of a hide_acorns run no two refreshes of the same
\* group key are in progress at the same time, and the sequential fallback never
\* runs while a pool worker is still executing: the pool is drained before it.
C35_SingleWriterPerKey ==
    /\ \A subject \in SubjectValues : InProgress(subject) <= 1
    /\ pc \in {"fallback", "fallback_running"} =>
          /\ \A j \in DOMAIN futures : futures[j].state \notin {"pending", "running"}
          /\ \A i \in CallEvents :
                events[i].by = "worker" =>
                    \E r \in DOMAIN events :
                        /\ r > i
                        /\ events[r].kind \in Outcomes
                        /\ events[r].by = "worker"
                        /\ events[r].subject = events[i].subject

\* the fallback is refreshing a group whose pool call was started after the
\* exception of another worker had been raised
C35_Witness ==
    /\ pc = "fallback_running"
    /\ surfaced # 0
    /\ \E i \in CallEvents :
          /\ events[i].by = "worker"
          /\ i > surfaced
          /\ events[i].subject = events[Len(events)].subject

\* the per-group refresh calls of the group that returned
QcReturnsFor(subject) ==
    {i \in DOMAIN events : /\ events[i].kind = "ret"
                           /\ events[i].fn = "qc"
                           /\ events[i].subject = subject}

\* C36: whenever hide_acorns returns normally, every distinct non-null group
\* identifier of the asset_basics dataset has had at least one per-group refresh
\* call that returned without raising, also when the parallel stage failed and
\* the sequential fallback was used.
C36_CompletionImpliesCoverage ==
    Returned => \A g \in Groups : QcReturnsFor(g) # {}

\* a run over three groups returned through the fallback; the pool call of one
\* group had raised and its only return is that of the fallback
C36_Witness ==
    /\ Returned
    /\ surfaced # 0
    /\ Cardinality(Groups) >= 3
    /\ \E g \in Groups :
          /\ \E i \in WorkerFailures : events[i].subject = g
          /\ \A i \in QcReturnsFor(g) : events[i].by = "fallback"

\* the first group's refresh is running: called and not yet returned or raised
FirstRunning ==
    \E i \in CallEvents :
        /\ events[i].by = "main" /\ events[i].fn = "qc"
        /\ \A r \in DOMAIN events :
              r > i => ~(events[r].by = "main" /\ events[r].fn = "qc")

\* C11: the first group's refresh has returned before any other group's refresh
\* is dispatched to the pool; no worker's refresh starts, and nothing is submitted,
\* while the first group's refresh is running.
C11_FirstAwaitedBeforeDispatch ==
    /\ FirstRunning => (futures = <<>> /\ \A i \in CallEvents : events[i].by # "worker")
    /\ futures # <<>> =>
          \E r \in DOMAIN events :
              /\ events[r].kind = "ret" /\ events[r].fn = "qc" /\ events[r].by = "main"
              /\ \A i \in CallEvents : events[i].by = "worker" => r < i

\* two workers are inside their refresh at once, after the first group's returned
C11_Witness ==
    /\ Cardinality({j \in DOMAIN futures : futures[j].state = "running"}) >= 2
    /\ ~FirstRunning

\* asset_basics has returned its dataset
BasicsReturned == \E r \in DOMAIN events : events[r].kind = "ret" /\ events[r].fn = "basics"

\* C12: if the dataset of asset_basics has no non-null group identifier, the
\* per-group refresh is never invoked, no pool is opened, and hide_acorns returns
\* normally once source_data and raw_to_derived have returned.
C12_NoGroupsNoFanOut ==
    (BasicsReturned /\ Groups = {}) =>
        /\ CallsOf("qc") = {}
        /\ futures = <<>>
        /\ pc \in {"d2r", "r2d", "ids", "done", "raised"}
        /\ Raised => events[exc].fn \in {"d2r", "r2d"}
        /\ (\E r \in DOMAIN events : events[r].kind = "ret" /\ events[r].fn = "r2d")
              => pc \in {"ids", "done"}

\* hide_acorns returned over a dataset whose subject_id column holds only missing
\* values
C12_Witness ==
    /\ Returned
    /\ Len(df_basics) >= 2
    /\ Groups = {}
    /\ \A fn \in Range(NonFanOut) : Cardinality(CallsOf(fn)) = 1

(***************************************************************************)
(* qc (acorn_helpers/qc.py): the quality control metrics of one subject,    *)
(* cached under the key qc/<subject_id>.  A docdb record is [name, metrics]:*)
(* the asset's name and the names of its quality_control metrics; a row of  *)
(* the dataset is one metric tagged with asset_name.                        *)
(***************************************************************************)
QcSubjects == {"s1", "s2"}

\* cache_key = f"qc/{subject_id}"
QcKey(subject_id) == <<"qc/", subject_id>>

QcColumns == <<"name", "asset_name">>

\* what client.retrieve_docdb_records returns for a subject
QcRemotes ==
    {<<>>,
     <<[name |-> "m1", metrics |-> <<>>]>>,
     <<[name |-> "m1", metrics |-> <<"q1">>]>>,
     <<[name |-> "m1", metrics |-> <<"q1", "q2">>], [name |-> "m2", metrics |-> <<"q1">>]>>}

RECURSIVE AllMetrics(_)
\* lines 111-124: one row per metric of each record, tagged with the asset's name
AllMetrics(records) ==
    IF records = <<>> THEN <<>>
    ELSE LET record == Head(records)
         IN  [k \in 1..Len(record.metrics) |->
                 [name |-> record.metrics[k], asset_name |-> record.name]]
             \o AllMetrics(Tail(records))

\* acorns.TREE.scurry(cache_key)
TREE_scurry(tr, st, table_name, read_fails) ==
    IF tr = "memory"
    THEN MemoryTree_scurry_single(st, table_name)
    ELSE S3Tree_scurry_single(st, table_name, read_fails)

\* acorns.TREE.hide(cache_key, df, write_metadata)
TREE_hide(tr, st, table_name, data, write_metadata, fault) ==
    IF tr = "memory"
    THEN [raised |-> FALSE, store |-> MemoryTree_hide(st, table_name, data)]
    ELSE S3Tree_hide(st, table_name, data, write_metadata, fault)

\* line 137 passes no write_metadata to hide: the default of forest.py applies
QcHideWriteMetadata == TRUE

\* _fetch_subject_qc: query, flatten, hide and return; nothing is stored when the
\* subject has no record or no metric
fetch_subject_qc(tr, st, subject_id, records, fetch_fails, fault) ==
    IF fetch_fails
    THEN [raised |-> TRUE, df |-> EmptyFrame, store |-> st, hid |-> FALSE]
    ELSE IF records = <<>> \/ AllMetrics(records) = <<>>
         THEN [raised |-> FALSE, df |-> EmptyFrame, store |-> st, hid |-> FALSE]
         ELSE LET df == [cols |-> QcColumns, rows |-> AllMetrics(records)]
                  out == TREE_hide(tr, st, QcKey(subject_id), df, QcHideWriteMetadata,
                                   fault)
              IN  [raised |-> out.raised, df |-> df, store |-> out.store, hid |-> TRUE]

RECURSIVE Join(_)
\* a str, given as the sequence of its characters
Join(chars) == IF chars = <<>> THEN "" ELSE Head(chars) \o Join(Tail(chars))

\* the asset_names argument: None, a str (its characters) or a list of str
NoAssetNames == [type |-> "none", value |-> <<>>]
AssetNameArgs ==
    {NoAssetNames,
     [type |-> "str", value |-> <<"m", "1">>],
     [type |-> "list", value |-> <<>>],
     [type |-> "list", value |-> <<"m1">>],
     [type |-> "list", value |-> <<"ghost">>],
     [type |-> "list", value |-> <<"m1", "ghost">>],
     [type |-> "list", value |-> <<"m2", "m1">>]}

\* variant: no isinstance branch, a str is iterated character by character
AsListNoStrCase(asset_names) == asset_names.value

\* lines 155-156: if isinstance(asset_names, str): asset_names = [asset_names]
AsList(asset_names) ==
    IF asset_names.type = "str" THEN <<Join(asset_names.value)>> ELSE asset_names.value

RECURSIVE RowsInRequestOrder(_, _)
\* the rows of the first requested name, then those of the second, and so on
RowsInRequestOrder(rows, names) ==
    IF names = <<>> THEN <<>>
    ELSE SelectSeq(rows, LAMBDA r : r.asset_name = Head(names))
         \o RowsInRequestOrder(rows, Tail(names))

\* variant: the result is assembled member by member, in the order requested
filter_by_asset_names_in_request_order(df, asset_names) ==
    IF IsEmpty(df)
    THEN [df |-> df, warned |-> <<>>]
    ELSE LET names == AsList(asset_names)
             available == Unique([i \in DOMAIN df.rows |-> df.rows[i].asset_name])
         IN  [df |-> [cols |-> df.cols,
                      rows |-> RowsInRequestOrder(df.rows, UniqueItems(names))],
              warned |-> SelectSeq(names, LAMBDA n : n \notin Range(available))]

\* _filter_by_asset_names: the rows of the requested assets, a warning for the
\* requested names that no row carries
filter_by_asset_names(df, asset_names) ==
    IF IsEmpty(df)
    THEN [df |-> df, warned |-> <<>>]
    ELSE LET names == AsList(asset_names)
             available == Unique([i \in DOMAIN df.rows |-> df.rows[i].asset_name])
             missing_assets == SelectSeq(names, LAMBDA n : n \notin Range(available))
         IN  [df |-> [cols |-> df.cols,
                      rows |-> SelectSeq(df.rows,
                                         LAMBDA r : r.asset_name \in Range(names))],
              warned |-> missing_assets]

\* variant: a call that finds no cached data fetches, asked to or not
qc_fetching_on_miss(tr, st, subject_id, asset_names, force_update, records, read_fails, fetch_fails, fault) ==
    LET cached == TREE_scurry(tr, st, QcKey(subject_id), read_fails).df
        fetched == IF force_update \/ IsEmpty(cached)
                   THEN fetch_subject_qc(tr, st, subject_id, records, fetch_fails, fault)
                   ELSE [raised |-> FALSE, df |-> cached, store |-> st, hid |-> FALSE]
        result == IF asset_names.type = "none" \/ fetched.raised
                  THEN [df |-> fetched.df, warned |-> <<>>]
                  ELSE filter_by_asset_names(fetched.df, asset_names)
    IN  [raised |-> fetched.raised,
         df |-> IF fetched.raised THEN EmptyFrame ELSE result.df,
         store |-> fetched.store,
         cached |-> cached,
         fetched |-> fetched.df,
         warned |-> result.warned,
         logged_error |-> IsEmpty(cached) /\ ~force_update,
         queried |-> force_update \/ IsEmpty(cached),
         hid |-> fetched.hid]

\* the body of qc, lines 52-70
qc(tr, st, subject_id, asset_names, force_update, records, read_fails, fetch_fails, fault) ==
    LET cached == TREE_scurry(tr, st, QcKey(subject_id), read_fails).df
        fetched == IF force_update
                   THEN fetch_subject_qc(tr, st, subject_id, records, fetch_fails, fault)
                   ELSE [raised |-> FALSE, df |-> cached, store |-> st, hid |-> FALSE]
        result == IF asset_names.type = "none" \/ fetched.raised
                  THEN [df |-> fetched.df, warned |-> <<>>]
                  ELSE filter_by_asset_names(fetched.df, asset_names)
    IN  [raised |-> fetched.raised,
         df |-> IF fetched.raised THEN EmptyFrame ELSE result.df,
         store |-> fetched.store,
         cached |-> cached,
         fetched |-> fetched.df,
         warned |-> result.warned,
         logged_error |-> IsEmpty(cached) /\ ~force_update,
         queried |-> force_update,
         hid |-> fetched.hid]

\* line 30: the parameters of qc
QcParameters == {"subject_id", "asset_names", "force_update"}

\* the write_metadata keyword of a call: not passed, or passed as True or False
\* (sync.py lines 32, 39, 48)
WriteMetadataKw == {"absent", "True", "False"}

\* the keyword arguments of a call
Keywords(asset_names, write_metadata) ==
    {"subject_id", "force_update"}
    \cup (IF asset_names.type = "none" THEN {} ELSE {"asset_names"})
    \cup (IF write_metadata = "absent" THEN {} ELSE {"write_metadata"})

\* a call of qc: a keyword that is no parameter is a TypeError before the body
\* runs; otherwise the body runs against the store
QcCall ==
    /\ tree \in {"memory", "s3"}
    /\ \E subject_id \in QcSubjects, asset_names \in AssetNameArgs,
          force_update \in BOOLEAN, write_metadata \in WriteMetadataKw,
          records \in QcRemotes, read_fails \in BOOLEAN, fetch_fails \in BOOLEAN,
          fault \in S3WriteFaults :
          \* an input the call never reaches keeps its first value
          /\ (tree = "memory" \/ write_metadata # "absent") => (~read_fails /\ fault = "none")
          /\ (~force_update \/ write_metadata # "absent" \/ fetch_fails) =>
                (records = <<>> /\ fault = "none")
          /\ (~force_update \/ write_metadata # "absent") => ~fetch_fails
          /\ AllMetrics(records) = <<>> => fault = "none"
          /\ LET binds == Keywords(asset_names, write_metadata) \subseteq QcParameters
                 out == qc(tree, store, subject_id, asset_names, force_update, records,
                           read_fails, fetch_fails, fault)
                 hide_written == binds /\ out.hid /\ (tree = "memory" \/ fault # "data_put")
             IN  /\ store' = IF binds THEN out.store ELSE store
                 /\ qc_last' =
                       [called |-> TRUE, subject_id |-> subject_id,
                        asset_names |-> asset_names, force_update |-> force_update,
                        write_metadata |-> write_metadata,
                        fault |-> read_fails \/ fetch_fails \/ fault # "none",
                        raised |-> ~binds \/ out.raised,
                        type_error |-> ~binds,
                        df |-> IF binds THEN out.df ELSE EmptyFrame,
                        cached |-> IF binds THEN out.cached ELSE EmptyFrame,
                        fetched |-> IF binds THEN out.fetched ELSE EmptyFrame,
                        warned |-> IF binds THEN out.warned ELSE <<>>,
                        logged_error |-> binds /\ out.logged_error,
                        queried |-> binds /\ out.queried,
                        data_written |-> hide_written,
                        sidecar_written |->
                            tree = "s3" /\ hide_written /\ QcHideWriteMetadata /\ ~out.raised]
    /\ UNCHANGED <<tree, hidden, attempted, tree_last, basicsVars, syncVars, acornVars, unitVars>>

QcInit ==
    /\ tree \in {"memory", "s3"}
    /\ store = EmptyDict
    /\ hidden = EmptyDict
    /\ attempted = {}
    /\ tree_last = NoOp
    /\ BasicsIdle
    /\ SyncIdle
    /\ QcIdle
    /\ AcornIdle
    /\ UnitsIdle

QcNext == QcCall

SpecQc == QcInit /\ [][QcNext]_vars

(***************************************************************************)
(* Claims about qc (SpecQc).                                                *)
(***************************************************************************)
\* the last call was made as hide_acorns makes it for a group other than the
\* first, nothing failed at the remote source or the store, and the source holds
\* metrics of the subject
OtherGroupRefresh ==
    /\ qc_last.called
    /\ qc_last.force_update
    /\ qc_last.write_metadata = "False"
    /\ qc_last.asset_names = NoAssetNames
    /\ ~qc_last.fault

\* C13: for a group other than the first, qc writes the group's dataset with the
\* sidecar write suppressed: the refresh returns, the dataset is stored when the
\* source holds metrics, and the shared sidecar of the qc family is not written.
C13_OtherGroupsSuppressSidecar ==
    OtherGroupRefresh =>
        /\ ~qc_last.raised
        /\ ~IsEmpty(qc_last.fetched) => qc_last.data_written
        /\ ~qc_last.sidecar_written

\* the names a call asks for: the one name of a str, the names of a list
RequestedNames(asset_names) ==
    IF asset_names.type = "str" THEN {Join(asset_names.value)} ELSE Range(asset_names.value)

\* the last call ran the body of qc with a filter over a subject dataset with rows
FilteredCall ==
    /\ qc_last.called
    /\ ~qc_last.type_error
    /\ qc_last.asset_names.type # "none"
    /\ ~IsEmpty(qc_last.fetched)

RequestIndex(asset_names, name) ==
    CHOOSE i \in DOMAIN asset_names.value : asset_names.value[i] = name

\* the position of a row in the subject dataset (its rows are distinct)
StoredIndex(row) ==
    CHOOSE i \in DOMAIN qc_last.fetched.rows : qc_last.fetched.rows[i] = row

\* the last call filtered a subject dataset with rows by a list of names
ListFilteredCall == FilteredCall /\ ~qc_last.raised /\ qc_last.asset_names.type = "list"

\* C21 as stated: the rows of qc(subject, asset_names=[m1, m2, ...]) come member by
\* member in the order the members were supplied, whatever the order of the rows
\* in the stored dataset.
C21_RowsInSuppliedOrder ==
    ListFilteredCall =>
        \A i, j \in DOMAIN qc_last.df.rows :
            i < j =>
                RequestIndex(qc_last.asset_names, qc_last.df.rows[i].asset_name)
                   <= RequestIndex(qc_last.asset_names, qc_last.df.rows[j].asset_name)

\* C21 amended: the rows of qc(subject, asset_names=[m1, m2, ...]) keep the order
\* they have in the stored dataset, whatever the order in which the members were
\* supplied; the rows of one member keep their original order, and the rows of m1
\* precede those of m2 exactly when they do so in the stored dataset.
C21_RowsInStoredOrder ==
    ListFilteredCall =>
        /\ \A i \in DOMAIN qc_last.df.rows : qc_last.df.rows[i] \in Range(qc_last.fetched.rows)
        /\ \A i, j \in DOMAIN qc_last.df.rows :
              i < j => StoredIndex(qc_last.df.rows[i]) < StoredIndex(qc_last.df.rows[j])

\* the members were supplied as [m2, m1] and the rows of m1, stored first, come first
C21_Witness ==
    /\ ListFilteredCall
    /\ qc_last.asset_names.value = <<"m2", "m1">>
    /\ Len(qc_last.df.rows) = 3
    /\ qc_last.df.rows[1].asset_name = "m1"
    /\ qc_last.df.rows[3].asset_name = "m2"

\* the last call was qc(subject, force_update=False), with or without a filter,
\* on a subject whose cache is empty
EmptyCacheRead ==
    /\ qc_last.called
    /\ ~qc_last.type_error
    /\ ~qc_last.force_update
    /\ IsEmpty(qc_last.cached)

ReadAfterRefreshStep ==
    /\ qc_last.called /\ qc_last.force_update /\ ~qc_last.raised /\ ~qc_last.fault
    /\ qc_last.asset_names.type = "none"
    /\ qc_last'.called /\ ~qc_last'.force_update /\ ~qc_last'.raised /\ ~qc_last'.fault
    /\ qc_last'.asset_names.type = "none"
    /\ qc_last'.subject_id = qc_last.subject_id

\* C37: after qc(subject, force_update=True) returns a dataset R, an immediately
\* following qc(subject, force_update=False) returns a dataset content-equal to R,
\* also when the remote source returned no records or no metrics for the subject
\* while an older dataset was cached.
C37_ReadAfterRefreshReturnsSame ==
    [][ReadAfterRefreshStep => RowEqual(qc_last'.df, qc_last.df)]_vars

(***************************************************************************)
(* SpecSidecar: the object store written under one plain key and two keys   *)
(* of the qc family, which share the sidecar artifact zs_qc.json.           *)
(***************************************************************************)
SidecarKeys == {<<"a">>, <<"qc/", "a">>, <<"qc/", "b">>}
SidecarFrames == {[cols |-> c, rows |-> <<1>>] : c \in ColumnLists}

SidecarHide == S3TreeHideOver(SidecarKeys, SidecarFrames)

SidecarScurry == S3TreeScurryOver(SidecarKeys)

\* load_columns_from_metadata, utils.py 52-73: get_object raises when the object
\* is missing or the request fails
load_columns_from_metadata(st, table_name, read_fails) ==
    LET base_name == prefix_table_name(table_name)
        json_filename == ReplacePqtByJson(base_name)
        json_key == get_s3_cache_path(json_filename)
    IN  IF read_fails \/ json_key \notin DOMAIN st
        THEN [raised |-> TRUE, columns |-> <<>>]
        ELSE [raised |-> FALSE, columns |-> st[json_key].columns]

SidecarLoadColumns ==
    /\ tree = "s3"
    /\ \E k \in SidecarKeys, f \in BOOLEAN :
          LET out == load_columns_from_metadata(store, k, f)
          IN  tree_last' = [op |-> "load_columns", key |-> k, keys |-> <<>>,
                            df |-> [cols |-> out.columns, rows |-> <<>>],
                            raised |-> out.raised, fault |-> f, write_metadata |-> FALSE]
    /\ UNCHANGED <<tree, store, hidden, attempted, basicsVars, syncVars, qcVars, acornVars,
                   unitVars>>

SidecarInit ==
    /\ tree = "s3"
    /\ store = EmptyDict
    /\ hidden = EmptyDict
    /\ attempted = {}
    /\ tree_last = NoOp
    /\ BasicsIdle
    /\ SyncIdle
    /\ QcIdle
    /\ AcornIdle
    /\ UnitsIdle

SidecarNext == SidecarHide \/ SidecarScurry \/ SidecarLoadColumns

SpecSidecar == SidecarInit /\ [][SidecarNext]_vars

(***************************************************************************)
(* Claims about the sidecar (SpecSidecar).                                  *)
(***************************************************************************)
SidecarArtifacts == {MetadataJsonKey(k) : k \in SidecarKeys}

\* C14 as stated: whenever a sidecar exists for key K, its column list is the
\* column list of the dataset stored under K by the latest write.
C14_SidecarMatchesStoredDataset ==
    \A k \in SidecarKeys :
        (MetadataJsonKey(k) \in DOMAIN store /\ S3DataKey(k) \in DOMAIN store) =>
            store[MetadataJsonKey(k)].columns = store[S3DataKey(k)].cols

\* the step is a hide call that returned with write_metadata=True and whose key
\* has the sidecar artifact m
WritesSidecar(m) ==
    /\ tree_last'.op = "hide"
    /\ ~tree_last'.raised
    /\ tree_last'.write_metadata
    /\ MetadataJsonKey(tree_last'.key) = m

SidecarStep ==
    \A m \in SidecarArtifacts :
        IF WritesSidecar(m)
        THEN /\ m \in DOMAIN store'
             /\ store'[m].columns = hidden'[tree_last'.key].cols
        ELSE /\ m \in DOMAIN store' <=> m \in DOMAIN store
             /\ m \in DOMAIN store => store'[m] = store[m]

\* C14 amended: a sidecar artifact holds exactly the column list of the dataset of
\* the latest hide call that returned with write_metadata=True for a key of that
\* artifact (the keys under qc/ share one artifact).  A write with
\* write_metadata=False, a call whose dataset or sidecar upload failed, and a
\* write to a key of another artifact leave it as it was, so it can differ from
\* the columns of the dataset stored under a key.
C14_SidecarOfLatestFlaggedWrite == [][SidecarStep]_vars

\* the shared sidecar holds the columns written with qc/b while qc/a was just
\* written, sidecar suppressed, with other columns
C14_Witness ==
    /\ tree_last.op = "hide" /\ ~tree_last.raised /\ ~tree_last.write_metadata
    /\ tree_last.key = <<"qc/", "a">>
    /\ <<"qc/", "b">> \in DOMAIN hidden
    /\ MetadataJsonKey(<<"qc/", "a">>) \in DOMAIN store
    /\ store[MetadataJsonKey(<<"qc/", "a">>)].columns = hidden[<<"qc/", "b">>].cols
    /\ store[MetadataJsonKey(<<"qc/", "a">>)].columns # hidden[<<"qc/", "a">>].cols

\* C29: for every key K, load_columns_from_metadata(K) reads the sidecar artifact
\* that hide(K, D) writes: once a hide of K wrote its sidecar, a read that the
\* object store serves returns the columns that sidecar holds - the shared
\* zs_qc.json for a key under "qc/", zs_<K>.json for any other key.
C29_ReaderReadsWrittenSidecar ==
    (/\ tree_last.op = "load_columns"
     /\ ~tree_last.fault
     /\ MetadataJsonKey(tree_last.key) \in DOMAIN store) =>
        /\ ~tree_last.raised
        /\ tree_last.df.cols = store[MetadataJsonKey(tree_last.key)].columns

(***************************************************************************)
(* SpecAcorns: the single-key entity caches (acorn_contents/, acorn_helpers/)*)
(* called in any order against one backend; every call receives the answer  *)
(* the remote source gives at that time.                                     *)
(***************************************************************************)
\* acorns.NAMES: the cache key of each function
NAMES ==
    [upn |-> <<"unique_project_names">>, usi |-> <<"unique_subject_ids">>,
     d2r |-> <<"source_data">>, r2d |-> <<"raw_to_derived">>]

\* the ValueError of a call that finds no cached data and was not asked to refresh
CacheEmptyMessage ==
    <<"Cache is empty. Use ", "force_update=True", " to fetch data from database.">>

\* pd.DataFrame(records): one row per record, the columns of the records; no
\* record gives a dataset without columns
DataFrame(records, columns) ==
    IF records = <<>> THEN EmptyFrame ELSE [cols |-> columns, rows |-> records]

\* df[column].tolist(): KeyError when the dataset has no such column
ColumnToList(df, column) ==
    IF column \in Range(df.cols)
    THEN [raised |-> FALSE, list |-> [i \in DOMAIN df.rows |-> df.rows[i][column]]]
    ELSE [raised |-> TRUE, list |-> <<>>]

RECURSIVE JoinComma(_)
\* ", ".join(names)
JoinComma(names) ==
    IF names = <<>> THEN ""
    ELSE IF Len(names) = 1 THEN Head(names)
    ELSE Head(names) \o ", " \o JoinComma(Tail(names))

\* what the remote source answers to the queries of one call
ProjectResults ==
    {<<>>, <<[project_name |-> "p1"]>>, <<[project_name |-> "p2"], [project_name |-> "p1"]>>}

SubjectResults ==
    {<<[subject_id |-> "s1"]>>, <<[subject_id |-> "s2"], [subject_id |-> "s1"]>>}

SourceRecords ==
    {<<[_id |-> "d1", source_data |-> <<"r1">>]>>,
     <<[_id |-> "d2", source_data |-> <<"r2", "r1">>], [_id |-> "r1", source_data |-> <<>>]>>}

RawDerivedRecords ==
    {[raw |-> <<"r1">>, derived |-> <<[name |-> "d1", source_data |-> <<"r1">>]>>],
     [raw |-> <<"r2", "r1", "r2">>,
      derived |-> <<[name |-> "d1", source_data |-> <<"r1", "r2">>],
                    [name |-> "d2", source_data |-> <<"r1", "x">>]>>]}

\* source_data lines 41-50: one row per record, its sources joined
SourceRows(records) ==
    [i \in DOMAIN records |->
        [_id |-> records[i]._id, source_data |-> JoinComma(records[i].source_data)]]

RECURSIVE SourcePairs(_)
\* raw_to_derived lines 59-65: the (source name, derived name) pairs in the order
\* the loops visit them
SourcePairs(derived) ==
    IF derived = <<>> THEN <<>>
    ELSE LET d == Head(derived)
         IN  [i \in DOMAIN d.source_data |-> <<d.source_data[i], d.name>>]
             \o SourcePairs(Tail(derived))

\* raw_to_derived lines 49 and 68-76: one row per distinct raw name, in the order
\* of first appearance, with the derived records that list it
RawToDerivedRows(records) ==
    LET raw_names == UniqueItems(records.raw)
        pairs == SourcePairs(records.derived)
        derived_names(raw_name) ==
            LET hits == SelectSeq(pairs, LAMBDA p : p[1] = raw_name)
            IN  [i \in DOMAIN hits |-> hits[i][2]]
    IN  [i \in DOMAIN raw_names |->
            [name |-> raw_names[i],
             derived_records |-> JoinComma(derived_names(raw_names[i]))]]

\* the hide calls of these functions pass no write_metadata: the default of
\* forest.py applies
AcornHideWriteMetadata == TRUE

\* variant: a refresh adds the fresh rows to the rows already cached
refresh_cache_keeping_rows(tr, st, key, cached, df, fetch_fails, fault) ==
    IF fetch_fails
    THEN [raised |-> TRUE, error |-> <<"remote query failed">>, queried |-> TRUE,
          wrote |-> FALSE, df |-> EmptyFrame, store |-> st]
    ELSE LET kept == IF IsEmpty(df) THEN cached
                     ELSE [cols |-> df.cols, rows |-> cached.rows \o df.rows]
             hide == TREE_hide(tr, st, key, kept, AcornHideWriteMetadata, fault)
         IN  [raised |-> hide.raised,
              error |-> IF hide.raised THEN <<"cache write failed">> ELSE <<>>,
              queried |-> TRUE,
              wrote |-> tr = "memory" \/ fault # "data_put",
              df |-> kept, store |-> hide.store]

\* the refresh branch: query the remote source, build the dataset, hide it
refresh_cache(tr, st, key, cached, df, fetch_fails, fault) ==
    IF fetch_fails
    THEN [raised |-> TRUE, error |-> <<"remote query failed">>, queried |-> TRUE,
          wrote |-> FALSE, df |-> EmptyFrame, store |-> st]
    ELSE LET hide == TREE_hide(tr, st, key, df, AcornHideWriteMetadata, fault)
         IN  [raised |-> hide.raised,
              error |-> IF hide.raised THEN <<"cache write failed">> ELSE <<>>,
              queried |-> TRUE,
              wrote |-> tr = "memory" \/ fault # "data_put",
              df |-> df, store |-> hide.store]

\* variant: every call refreshes, whatever the cache holds
read_or_refresh_ignoring_cache(tr, st, key, force_update, df, read_fails, fetch_fails, fault) ==
    LET cached == TREE_scurry(tr, st, key, read_fails).df
        out == IF IsEmpty(cached) /\ ~force_update
               THEN [raised |-> TRUE, error |-> CacheEmptyMessage, queried |-> FALSE,
                     wrote |-> FALSE, df |-> EmptyFrame, store |-> st]
               ELSE refresh_cache(tr, st, key, cached, df, fetch_fails, fault)
    IN  [raised |-> out.raised, error |-> out.error, queried |-> out.queried,
         wrote |-> out.wrote, df |-> out.df, store |-> out.store, cached |-> cached]

\* the body the functions share: read the cache, raise when it is empty and no
\* refresh was asked for, refresh when asked to, else keep the cached dataset
read_or_refresh(tr, st, key, force_update, df, read_fails, fetch_fails, fault) ==
    LET cached == TREE_scurry(tr, st, key, read_fails).df
        out == IF IsEmpty(cached) /\ ~force_update
               THEN [raised |-> TRUE, error |-> CacheEmptyMessage, queried |-> FALSE,
                     wrote |-> FALSE, df |-> EmptyFrame, store |-> st]
               ELSE IF IsEmpty(cached) \/ force_update
               THEN refresh_cache(tr, st, key, cached, df, fetch_fails, fault)
               ELSE [raised |-> FALSE, error |-> <<>>, queried |-> FALSE,
                     wrote |-> FALSE, df |-> cached, store |-> st]
    IN  [raised |-> out.raised, error |-> out.error, queried |-> out.queried,
         wrote |-> out.wrote, df |-> out.df, store |-> out.store, cached |-> cached]

\* acorn_contents/unique_subject_ids.py lines 23-39: a call that finds no cached
\* data refreshes, asked to or not
read_or_refresh_lazy(tr, st, key, force_update, df, read_fails, fetch_fails, fault) ==
    LET cached == TREE_scurry(tr, st, key, read_fails).df
        out == IF IsEmpty(cached) \/ force_update
               THEN refresh_cache(tr, st, key, cached, df, fetch_fails, fault)
               ELSE [raised |-> FALSE, error |-> <<>>, queried |-> FALSE,
                     wrote |-> FALSE, df |-> cached, store |-> st]
    IN  [raised |-> out.raised, error |-> out.error, queried |-> out.queried,
         wrote |-> out.wrote, df |-> out.df, store |-> out.store, cached |-> cached]

\* return df[column].tolist(): the value of a function that returns a list
ReturnColumn(out, column) ==
    LET col == ColumnToList(out.df, column)
    IN  IF out.raised
        THEN [out EXCEPT !.df = EmptyFrame] @@ [value |-> <<>>]
        ELSE IF col.raised
        THEN [out EXCEPT !.raised = TRUE, !.error = <<"KeyError: ", column>>,
                         !.df = EmptyFrame] @@ [value |-> <<>>]
        ELSE out @@ [value |-> col.list]

\* return df: the value of a function that returns the dataset
ReturnFrame(out) == out @@ [value |-> <<>>]

unique_project_names(tr, st, force_update, remote, read_fails, fetch_fails, fault) ==
    ReturnColumn(read_or_refresh(tr, st, NAMES.upn, force_update,
                                 DataFrame(remote.upn, <<"project_name">>),
                                 read_fails, fetch_fails, fault),
                 "project_name")

unique_subject_ids(tr, st, force_update, remote, read_fails, fetch_fails, fault) ==
    ReturnColumn(read_or_refresh(tr, st, NAMES.usi, force_update,
                                 DataFrame(remote.usi, <<"subject_id">>),
                                 read_fails, fetch_fails, fault),
                 "subject_id")

\* acorn_contents/unique_subject_ids.py: no check between the read and the refresh
acorn_contents_unique_subject_ids(tr, st, force_update, remote, read_fails, fetch_fails, fault) ==
    ReturnColumn(read_or_refresh_lazy(tr, st, NAMES.usi, force_update,
                                      DataFrame(remote.usi, <<"subject_id">>),
                                      read_fails, fetch_fails, fault),
                 "subject_id")

source_data(tr, st, force_update, remote, read_fails, fetch_fails, fault) ==
    ReturnFrame(read_or_refresh(tr, st, NAMES.d2r, force_update,
                                DataFrame(SourceRows(remote.d2r), <<"_id", "source_data">>),
                                read_fails, fetch_fails, fault))

raw_to_derived(tr, st, force_update, remote, read_fails, fetch_fails, fault) ==
    ReturnFrame(read_or_refresh(tr, st, NAMES.r2d, force_update,
                                DataFrame(RawToDerivedRows(remote.r2d),
                                          <<"name", "derived_records">>),
                                read_fails, fetch_fails, fault))

\* the functions a caller can reach: the package exports those of acorn_helpers/,
\* acorn_contents/ keeps its own unique_subject_ids
EntityCaches == {"upn", "usi", "usi_contents", "d2r", "r2d"}

CallEntityCache(acorn, tr, st, force_update, remote, read_fails, fetch_fails, fault) ==
    CASE acorn = "upn" ->
            unique_project_names(tr, st, force_update, remote, read_fails, fetch_fails, fault)
      [] acorn = "usi" ->
            unique_subject_ids(tr, st, force_update, remote, read_fails, fetch_fails, fault)
      [] acorn = "usi_contents" ->
            acorn_contents_unique_subject_ids(tr, st, force_update, remote, read_fails,
                                              fetch_fails, fault)
      [] acorn = "d2r" ->
            source_data(tr, st, force_update, remote, read_fails, fetch_fails, fault)
      [] acorn = "r2d" ->
            raw_to_derived(tr, st, force_update, remote, read_fails, fetch_fails, fault)

\* the cache key a function reads and writes
KeyOf(acorn) ==
    CASE acorn = "upn" -> NAMES.upn
      [] acorn \in {"usi", "usi_contents"} -> NAMES.usi
      [] acorn = "d2r" -> NAMES.d2r
      [] acorn = "r2d" -> NAMES.r2d

\* the answers of the remote source one call of a function can receive
RemotesFor(acorn) ==
    CASE acorn = "upn" -> {[NoRemote EXCEPT !.upn = r] : r \in ProjectResults}
      [] acorn \in {"usi", "usi_contents"} ->
            {[NoRemote EXCEPT !.usi = r] : r \in SubjectResults}
      [] acorn = "d2r" -> {[NoRemote EXCEPT !.d2r = r] : r \in SourceRecords}
      [] acorn = "r2d" -> {[NoRemote EXCEPT !.r2d = r] : r \in RawDerivedRecords}

\* the write of the dataset fails or succeeds; a failure of the sidecar write is
\* the subject of SpecTree and SpecSidecar
AcornWriteFaults == {"none", "data_put"}

\* whether a call reaches the query of the remote source
Queries(acorn, tr, st, force_update, read_fails) ==
    CallEntityCache(acorn, tr, st, force_update, NoRemote, read_fails, FALSE, "none").queried

\* one call of an entity cache, from the read of the cache to the return
AcornCall ==
    /\ tree \in {"memory", "s3"}
    /\ \E acorn \in EntityCaches, force_update \in BOOLEAN, read_fails \in BOOLEAN,
          fetch_fails \in BOOLEAN, fault \in AcornWriteFaults :
          \* an answer the call never receives is no answer
          \E remote \in IF ~fetch_fails /\ Queries(acorn, tree, store, force_update, read_fails)
                         THEN RemotesFor(acorn) ELSE {NoRemote} :
             LET out == CallEntityCache(acorn, tree, store, force_update, remote,
                                        read_fails, fetch_fails, fault)
             IN  \* an input the call never reaches keeps its first value
                 /\ tree = "memory" => (~read_fails /\ fault = "none")
                 /\ ~out.queried => (~fetch_fails /\ fault = "none")
                 /\ fetch_fails => fault = "none"
                 /\ store' = out.store
                 /\ ac_last' =
                       [acorn |-> acorn, force_update |-> force_update, remote |-> remote,
                        read_failed |-> read_fails,
                        fault |-> fetch_fails \/ fault # "none",
                        raised |-> out.raised, error |-> out.error,
                        queried |-> out.queried, wrote |-> out.wrote,
                        stored |-> TREE_scurry(tree, store, KeyOf(acorn), FALSE).df,
                        cached |-> out.cached, df |-> out.df, value |-> out.value]
    /\ UNCHANGED <<tree, hidden, attempted, tree_last, basicsVars, syncVars, qcVars, unitVars>>

AcornInit ==
    /\ tree \in {"memory", "s3"}
    /\ store = EmptyDict
    /\ hidden = EmptyDict
    /\ attempted = {}
    /\ tree_last = NoOp
    /\ BasicsIdle
    /\ SyncIdle
    /\ QcIdle
    /\ AcornIdle
    /\ UnitsIdle

AcornNext == AcornCall

SpecAcorns == AcornInit /\ [][AcornNext]_vars

\* the last call was a call of an entity cache with this force_update
AcornCalled(force_update) ==
    ac_last.acorn \in EntityCaches /\ ac_last.force_update = force_update

\* C22: for every single-key entity cache, a call with force_update=False while the
\* cached dataset is empty raises an error whose message names the remedy
\* force_update=True, queries no remote source and writes no cache.
C22_CacheMissRaises ==
    (AcornCalled(FALSE) /\ IsEmpty(ac_last.stored)) =>
        /\ ac_last.raised
        /\ "force_update=True" \in Range(ac_last.error)
        /\ ~ac_last.queried
        /\ ~ac_last.wrote

\* the dataset now stored under the key of the last call
StoredNow == TREE_scurry(tree, store, KeyOf(ac_last.acorn), FALSE).df

\* what a function returns for a dataset: a column as a list, or the dataset
ReturnedFor(acorn, df) ==
    CASE acorn = "upn" -> [list |-> ColumnToList(df, "project_name").list, df |-> df]
      [] acorn \in {"usi", "usi_contents"} ->
            [list |-> ColumnToList(df, "subject_id").list, df |-> df]
      [] OTHER -> [list |-> <<>>, df |-> df]

\* what the last call returned
ReturnedLast == [list |-> ac_last.value, df |-> ac_last.df]

\* a step that is a call without refresh
ReadStep == ac_last' # ac_last /\ ac_last'.acorn \in EntityCaches /\ ~ac_last'.force_update

\* what C24 says of a step that is a cache hit
HitReturnsCached ==
    /\ ~ac_last'.raised
    /\ [list |-> ac_last'.value, df |-> ac_last'.df]
          = ReturnedFor(ac_last'.acorn, ac_last'.stored)
    /\ ~ac_last'.queried
    /\ store' = store

\* C24 as stated: a call with force_update=False while the dataset stored under
\* its key is non-empty returns the cached data, queries no remote source and
\* leaves every stored dataset unchanged.
C24_HitWheneverStored ==
    [][(ReadStep /\ ~IsEmpty(ac_last'.stored)) => HitReturnsCached]_vars

\* C24 amended: a call with force_update=False for which the backend's read of
\* its key returns a non-empty dataset returns that data, queries no remote
\* source and leaves every stored dataset unchanged; a second such read of the
\* same function right after the first returns the same data.
C24_HitWhenReadSucceeds ==
    [][(ReadStep /\ ~IsEmpty(ac_last'.cached)) =>
          /\ HitReturnsCached
          /\ ac_last'.cached = ac_last'.stored
          /\ (/\ ac_last.acorn = ac_last'.acorn
              /\ ~ac_last.force_update
              /\ ~IsEmpty(ac_last.cached))
                => (ac_last'.value = ac_last.value /\ ac_last'.df = ac_last.df)]_vars

\* a function returned rows from a non-empty cache without refresh
C24_Witness ==
    /\ AcornCalled(FALSE)
    /\ ~IsEmpty(ac_last.cached)
    /\ ~ac_last.raised
    /\ Len(ac_last.df.rows) = 2
    /\ DOMAIN store # {}

\* the rows a function derives from the answer of the remote source
DerivedRows(acorn, remote) ==
    CASE acorn = "upn" -> remote.upn
      [] acorn \in {"usi", "usi_contents"} -> remote.usi
      [] acorn = "d2r" -> SourceRows(remote.d2r)
      [] acorn = "r2d" -> RawToDerivedRows(remote.r2d)

\* C25: after unique_project_names, unique_subject_ids, source_data or
\* raw_to_derived returns from a call with force_update=True, the dataset stored
\* under its key consists exactly of the rows derived from the current remote
\* result, no row of the previously cached dataset survives, and the returned
\* value equals what is stored.
C25_ForcedRefreshReplaces ==
    (AcornCalled(TRUE) /\ ~ac_last.raised) =>
        /\ StoredNow.rows = DerivedRows(ac_last.acorn, ac_last.remote)
        /\ \A i \in DOMAIN StoredNow.rows :
              StoredNow.rows[i] \in Range(ac_last.stored.rows)
                 => StoredNow.rows[i] \in Range(DerivedRows(ac_last.acorn, ac_last.remote))
        /\ ReturnedLast = ReturnedFor(ac_last.acorn, StoredNow)

\* a forced refresh returned while the cache held a row the remote result lacks
C25_Witness ==
    /\ AcornCalled(TRUE)
    /\ ~ac_last.raised
    /\ \E i \in DOMAIN ac_last.stored.rows :
          ac_last.stored.rows[i] \notin Range(StoredNow.rows)
    /\ StoredNow.rows # <<>>

\* C38: whenever a call to unique_project_names or unique_subject_ids raises
\* (a forced refresh for which the remote aggregation returns zero rows included),
\* the dataset stored under its key is the same as before the call.
C38_FailingCallWritesNothing ==
    (ac_last.acorn \in {"upn", "usi"} /\ ac_last.raised) =>
        RowEqual(StoredNow, ac_last.stored)

(***************************************************************************)
(* SpecCodec: encode_dict_value and decode_dict_value (acorn_helpers/qc.py) *)
(* applied to one value of a metric.  A value is None, a bool, an int, a    *)
(* str, a list or a dict with str keys; a str is its sequence of characters *)
(* and JSON text is a str.                                                   *)
(***************************************************************************)
MaxItems == 2

PyNone == [t |-> "none", s |-> <<>>, items |-> <<>>]

PyBool(b) == [t |-> IF b THEN "true" ELSE "false", s |-> <<>>, items |-> <<>>]

\* an int is its decimal digits
PyInt(digits) == [t |-> "int", s |-> digits, items |-> <<>>]

PyStr(chars) == [t |-> "str", s |-> chars, items |-> <<>>]

PyList(items) == [t |-> "list", s |-> <<>>, items |-> items]

\* a dict is its items in insertion order, each a key and a value
PyDict(items) == [t |-> "dict", s |-> <<>>, items |-> items]

JsonPrefix == <<"j", "s", "o", "n", ":">>

\* value.startswith(prefix)
StartsWith(chars, prefix) ==
    Len(chars) >= Len(prefix) /\ SubSeq(chars, 1, Len(prefix)) = prefix

Digits == {"0", "1", "2", "3", "4", "5", "6", "7", "8", "9"}

\* str(value) of a value that is neither a str, None, a dict nor a list
PyStrOf(value) ==
    CASE value.t = "int" -> PyStr(value.s)
      [] value.t = "true" -> PyStr(<<"T", "r", "u", "e">>)
      [] value.t = "false" -> PyStr(<<"F", "a", "l", "s", "e">>)

RECURSIVE Escape(_)
\* variant: the characters of a string are written as they are
EscapeNothing(chars) == chars

\* json.dumps of the characters of a string: a quote and a backslash are escaped
Escape(chars) ==
    IF chars = <<>> THEN <<>>
    ELSE (IF Head(chars) \in {"\"", "\\"} THEN <<"\\", Head(chars)>> ELSE <<Head(chars)>>)
         \o Escape(Tail(chars))

RECURSIVE json_dumps(_), DumpItems(_), DumpMembers(_)
\* json.dumps(value) with the default separators ", " and ": "
json_dumps(value) ==
    CASE value.t = "none" -> <<"n", "u", "l", "l">>
      [] value.t = "true" -> <<"t", "r", "u", "e">>
      [] value.t = "false" -> <<"f", "a", "l", "s", "e">>
      [] value.t = "int" -> value.s
      [] value.t = "str" -> <<"\"">> \o Escape(value.s) \o <<"\"">>
      [] value.t = "list" -> <<"[">> \o DumpItems(value.items) \o <<"]">>
      [] value.t = "dict" -> <<"{">> \o DumpMembers(value.items) \o <<"}">>

DumpItems(items) ==
    IF items = <<>> THEN <<>>
    ELSE json_dumps(Head(items))
         \o (IF Len(items) = 1 THEN <<>> ELSE <<",", " ">> \o DumpItems(Tail(items)))

DumpMembers(items) ==
    IF items = <<>> THEN <<>>
    ELSE <<"\"">> \o Escape(Head(items).key) \o <<"\"", ":", " ">>
         \o json_dumps(Head(items).value)
         \o (IF Len(items) = 1 THEN <<>> ELSE <<",", " ">> \o DumpMembers(Tail(items)))

\* what a parser returns when the text is no JSON
ParseFailed == [ok |-> FALSE, value |-> PyNone, rest |-> <<>>]

Parsed(value, rest) == [ok |-> TRUE, value |-> value, rest |-> rest]

RECURSIVE SkipSpaces(_)
SkipSpaces(chars) ==
    IF chars # <<>> /\ Head(chars) = " " THEN SkipSpaces(Tail(chars)) ELSE chars

RECURSIVE ParseString(_)
\* the characters of a string literal up to its closing quote, escapes undone;
\* `chars` starts after the opening quote
ParseString(chars) ==
    IF chars = <<>> THEN [ok |-> FALSE, s |-> <<>>, rest |-> <<>>]
    ELSE IF Head(chars) = "\"" THEN [ok |-> TRUE, s |-> <<>>, rest |-> Tail(chars)]
    ELSE IF Head(chars) = "\\"
    THEN IF Len(chars) < 2 \/ chars[2] \notin {"\"", "\\"}
         THEN [ok |-> FALSE, s |-> <<>>, rest |-> <<>>]
         ELSE LET r == ParseString(SubSeq(chars, 3, Len(chars)))
              IN  [ok |-> r.ok, s |-> <<chars[2]>> \o r.s, rest |-> r.rest]
    ELSE LET r == ParseString(Tail(chars))
         IN  [ok |-> r.ok, s |-> <<Head(chars)>> \o r.s, rest |-> r.rest]

RECURSIVE ParseDigits(_)
\* the longest run of digits at the start of the text
ParseDigits(chars) ==
    IF chars = <<>> \/ Head(chars) \notin Digits
    THEN [s |-> <<>>, rest |-> chars]
    ELSE LET r == ParseDigits(Tail(chars))
         IN  [s |-> <<Head(chars)>> \o r.s, rest |-> r.rest]

RECURSIVE ParseValue(_), ParseItems(_, _), ParseMembers(_, _)
\* one JSON value at the start of the text
ParseValue(text) ==
    LET chars == SkipSpaces(text)
    IN  IF chars = <<>> THEN ParseFailed
        ELSE IF Head(chars) = "\""
        THEN LET r == ParseString(Tail(chars))
             IN  IF r.ok THEN Parsed(PyStr(r.s), r.rest) ELSE ParseFailed
        ELSE IF Head(chars) \in Digits
        THEN LET r == ParseDigits(chars) IN Parsed(PyInt(r.s), r.rest)
        ELSE IF Head(chars) = "["
        THEN LET inner == SkipSpaces(Tail(chars))
             IN  IF inner # <<>> /\ Head(inner) = "]"
                 THEN Parsed(PyList(<<>>), Tail(inner))
                 ELSE ParseItems(inner, <<>>)
        ELSE IF Head(chars) = "{"
        THEN LET inner == SkipSpaces(Tail(chars))
             IN  IF inner # <<>> /\ Head(inner) = "}"
                 THEN Parsed(PyDict(<<>>), Tail(inner))
                 ELSE ParseMembers(inner, <<>>)
        ELSE IF StartsWith(chars, <<"n", "u", "l", "l">>)
        THEN Parsed(PyNone, SubSeq(chars, 5, Len(chars)))
        ELSE IF StartsWith(chars, <<"t", "r", "u", "e">>)
        THEN Parsed(PyBool(TRUE), SubSeq(chars, 5, Len(chars)))
        ELSE IF StartsWith(chars, <<"f", "a", "l", "s", "e">>)
        THEN Parsed(PyBool(FALSE), SubSeq(chars, 6, Len(chars)))
        ELSE ParseFailed

\* the items of a list after "[" or ",", up to "]"
ParseItems(text, items) ==
    LET v == ParseValue(text)
        after == SkipSpaces(v.rest)
    IN  IF ~v.ok \/ after = <<>> THEN ParseFailed
        ELSE IF Head(after) = "," THEN ParseItems(Tail(after), Append(items, v.value))
        ELSE IF Head(after) = "]" THEN Parsed(PyList(Append(items, v.value)), Tail(after))
        ELSE ParseFailed

\* the members of an object after "{" or ",", up to "}"; a repeated key keeps
\* its place and takes the later value
ParseMembers(text, items) ==
    LET chars == SkipSpaces(text)
        k == IF chars # <<>> /\ Head(chars) = "\""
             THEN ParseString(Tail(chars))
             ELSE [ok |-> FALSE, s |-> <<>>, rest |-> <<>>]
        colon == SkipSpaces(k.rest)
        v == IF k.ok /\ colon # <<>> /\ Head(colon) = ":"
             THEN ParseValue(Tail(colon))
             ELSE ParseFailed
        after == SkipSpaces(v.rest)
        member == [key |-> k.s, value |-> v.value]
        merged == IF \E i \in DOMAIN items : items[i].key = k.s
                  THEN [i \in DOMAIN items |-> IF items[i].key = k.s THEN member ELSE items[i]]
                  ELSE Append(items, member)
    IN  IF ~v.ok \/ after = <<>> THEN ParseFailed
        ELSE IF Head(after) = "," THEN ParseMembers(Tail(after), merged)
        ELSE IF Head(after) = "}" THEN Parsed(PyDict(merged), Tail(after))
        ELSE ParseFailed

\* json.loads(text): the value, or JSONDecodeError when the text is no JSON or
\* more text follows the value
json_loads(text) ==
    LET r == ParseValue(text)
    IN  IF r.ok /\ SkipSpaces(r.rest) = <<>>
        THEN [raised |-> FALSE, value |-> r.value]
        ELSE [raised |-> TRUE, value |-> PyNone]

\* encode_dict_value, qc.py 13-19
encode_dict_value(value) ==
    IF value.t \in {"dict", "list"}
    THEN PyStr(JsonPrefix \o json_dumps(value))
    ELSE IF value.t # "none" /\ value.t # "str"
    THEN PyStrOf(value)
    ELSE value

\* decode_dict_value, qc.py 22-26
decode_dict_value(value) ==
    IF value.t = "str" /\ StartsWith(value.s, JsonPrefix)
    THEN json_loads(SubSeq(value.s, Len(JsonPrefix) + 1, Len(value.s)))
    ELSE [raised |-> FALSE, value |-> value]

\* the values of a metric the functions are applied to
PlainStrings == {<<>>, <<"a">>, <<"a", "\"", "b">>, <<"\\", "]">>, <<"j", "s", "o", "n">>}

\* strings that carry the prefix without being an encoding of this module
TaggedStrings == {JsonPrefix \o <<"7">>, JsonPrefix \o <<"x">>, JsonPrefix}

Scalars ==
    {PyNone, PyBool(TRUE), PyBool(FALSE), PyInt(<<"4", "2">>)}
       \cup {PyStr(chars) : chars \in PlainStrings}

DictKeys == {<<"a">>, <<"k", "\"">>}

\* the dicts over a set of values: no key twice, every order of insertion
DictsOver(values) ==
    {PyDict(<<>>)}
       \cup {PyDict(<<[key |-> k, value |-> v]>>) : k \in DictKeys, v \in values}
       \cup {PyDict(<<[key |-> ks[1], value |-> v1], [key |-> ks[2], value |-> v2]>>) :
                ks \in {p \in DictKeys \X DictKeys : p[1] # p[2]},
                v1 \in values, v2 \in values}

ListsOver(values) == {PyList(items) : items \in SeqsUpTo(values, MaxItems)}

\* containers of scalars, and containers that hold one such container
FlatContainers == ListsOver(Scalars) \cup DictsOver(Scalars)

NestedContainers ==
    {PyList(<<c>>) : c \in FlatContainers}
       \cup {PyDict(<<[key |-> k, value |-> c]>>) : k \in {<<"a">>}, c \in FlatContainers}
       \cup {PyList(<<PyStr(<<"a", "\"", "b">>), c>>) : c \in DictsOver({PyInt(<<"4", "2">>)})}

CodecInputs ==
    Scalars \cup {PyStr(chars) : chars \in TaggedStrings} \cup FlatContainers
       \cup NestedContainers

\* encoded = encode_dict_value(value)
Encode ==
    /\ codec.stage = "input"
    /\ codec' = [codec EXCEPT !.stage = "encoded", !.encoded = encode_dict_value(codec.value)]
    /\ UNCHANGED <<treeVars, basicsVars, syncVars, qcVars, acornVars, env, workers, batching>>

\* decode_dict_value(encoded)
Decode ==
    /\ codec.stage = "encoded"
    /\ LET out == decode_dict_value(codec.encoded)
       IN  codec' = [codec EXCEPT !.stage = "decoded", !.raised = out.raised,
                                  !.result = out.value]
    /\ UNCHANGED <<treeVars, basicsVars, syncVars, qcVars, acornVars, env, workers, batching>>

\* decode_dict_value(value) of a value as it is stored
DecodeStored ==
    /\ codec.stage = "input"
    /\ LET out == decode_dict_value(codec.value)
       IN  codec' = [codec EXCEPT !.stage = "decoded_stored", !.raised = out.raised,
                                  !.result = out.value]
    /\ UNCHANGED <<treeVars, basicsVars, syncVars, qcVars, acornVars, env, workers, batching>>

CodecInit ==
    /\ codec \in {[stage |-> "input", value |-> v, encoded |-> PyNone, raised |-> FALSE,
                   result |-> PyNone] : v \in CodecInputs}
    /\ env = NotRead
    /\ workers = [w \in Workers |-> IdleWorker]
    /\ batching = NoBatching
    /\ TreeIdle
    /\ BasicsIdle
    /\ SyncIdle
    /\ QcIdle
    /\ AcornIdle

CodecNext == Encode \/ Decode \/ DecodeStored

SpecCodec == CodecInit /\ [][CodecNext]_vars

\* C27: for every dict or list v, decode_dict_value(encode_dict_value(v)) equals v;
\* encode_dict_value of a plain string returns it unchanged and of None returns
\* None; decode_dict_value of a string without the 'json:' prefix returns it
\* unchanged.
C27_CodecRoundTrip ==
    /\ (codec.stage = "decoded" /\ codec.value.t \in {"dict", "list"}) =>
          (~codec.raised /\ codec.result = codec.value)
    /\ (codec.stage \in {"encoded", "decoded"} /\ codec.value.t \in {"str", "none"}) =>
          codec.encoded = codec.value
    /\ (/\ codec.stage = "decoded_stored"
        /\ codec.value.t = "str"
        /\ ~StartsWith(codec.value.s, JsonPrefix)) =>
          (~codec.raised /\ codec.result = codec.value)

\* a list that holds a string with a quote and a dict came back as it went in
C27_Witness ==
    /\ codec.stage = "decoded"
    /\ codec.value.t = "list"
    /\ Len(codec.value.items) = 2
    /\ codec.value.items[1] = PyStr(<<"a", "\"", "b">>)
    /\ codec.value.items[2].t = "dict"
    /\ codec.value.items[2].items # <<>>
    /\ codec.result = codec.value
    /\ codec.encoded.t = "str"

\* C40: for every string s, strings that begin with 'json:' included,
\* decode_dict_value(encode_dict_value(s)) returns s without raising, so a stored
\* cell that decodes to a dict or list was always produced from a dict or list.
C40_StringsRoundTrip ==
    (codec.stage = "decoded" /\ codec.value.t = "str") =>
        /\ ~codec.raised
        /\ codec.result = codec.value

(***************************************************************************)
(* SpecStartup: the import of squirrels.py reads TREE_SPECIES and creates   *)
(* the backend ACORN; the process then stores and reads through it.         *)
(***************************************************************************)
UpperLetters ==
    <<"A", "B", "C", "D", "E", "F", "G", "H", "I", "J", "K", "L", "M",
      "N", "O", "P", "Q", "R", "S", "T", "U", "V", "W", "X", "Y", "Z">>

LowerLetters ==
    <<"a", "b", "c", "d", "e", "f", "g", "h", "i", "j", "k", "l", "m",
      "n", "o", "p", "q", "r", "s", "t", "u", "v", "w", "x", "y", "z">>

\* str.lower(), character by character
Lower(chars) ==
    [i \in DOMAIN chars |->
        IF \E k \in DOMAIN UpperLetters : UpperLetters[k] = chars[i]
        THEN LowerLetters[CHOOSE k \in DOMAIN UpperLetters : UpperLetters[k] = chars[i]]
        ELSE chars[i]]

\* os.getenv(name, default)
getenv(variable, default) == IF variable.set THEN variable.value ELSE default

\* what the environment of the process can hold for TREE_SPECIES
EnvValues ==
    {[set |-> FALSE, value |-> <<>>],
     [set |-> TRUE, value |-> <<"m", "e", "m", "o", "r", "y">>],
     [set |-> TRUE, value |-> <<"r", "e", "d", "s", "h", "i", "f", "t">>],
     [set |-> TRUE, value |-> <<"R", "e", "d", "s", "h", "i", "f", "t">>],
     [set |-> TRUE, value |-> <<"s", "3">>],
     [set |-> TRUE, value |-> <<"r", "e", "d", "s", "h", "f", "t">>]}

\* squirrels.py 13-20; RedshiftAcorn() connects and can raise, MemoryAcorn() cannot
ImportSquirrels ==
    /\ tree = "none"
    /\ \E connect_fails \in BOOLEAN :
          LET tree_type == Lower(getenv(env, <<"m", "e", "m", "o", "r", "y">>))
          IN  /\ tree_type # <<"r", "e", "d", "s", "h", "i", "f", "t">> => ~connect_fails
              /\ tree' = IF tree_type = <<"r", "e", "d", "s", "h", "i", "f", "t">>
                         THEN IF connect_fails THEN "failed" ELSE "redshift"
                         ELSE "memory"
    /\ UNCHANGED <<store, hidden, attempted, tree_last, basicsVars, syncVars, qcVars,
                   acornVars, unitVars>>

StartupInit ==
    /\ tree = "none"
    /\ env \in EnvValues
    /\ store = EmptyDict
    /\ hidden = EmptyDict
    /\ attempted = {}
    /\ tree_last = NoOp
    /\ codec = NoCodec
    /\ workers = [w \in Workers |-> IdleWorker]
    /\ batching = NoBatching
    /\ BasicsIdle
    /\ SyncIdle
    /\ QcIdle
    /\ AcornIdle

StartupNext ==
    \/ ImportSquirrels
    \/ MemoryTreeHide
    \/ MemoryTreeScurry
    \/ RedshiftAcornHide
    \/ RedshiftAcornScurry

SpecStartup == StartupInit /\ [][StartupNext]_vars

\* the values of the toggle the code names
AcceptedSpecies == {<<"m", "e", "m", "o", "r", "y">>, <<"r", "e", "d", "s", "h", "i", "f", "t">>}

\* C28: the backend is chosen once at start-up from the environment toggle, and a
\* value outside the enumerated accepted set is a fatal configuration error:
\* start-up fails instead of silently selecting a default backend.
C28_UnrecognizedValueIsFatal ==
    (tree # "none" /\ env.set /\ Lower(env.value) \notin AcceptedSpecies) => tree = "failed"

(***************************************************************************)
(* SpecPool: the workers of a thread pool each run one TREE.hide call, on   *)
(* pairwise distinct keys; the statements of the calls interleave.          *)
(***************************************************************************)
PoolKeys == SidecarKeys

PoolFrames == SidecarFrames

\* the keys of the calls other workers have entered
KeysOfOthers(w) == {workers[v].key : v \in {u \in Workers \ {w} : workers[u].pc # "idle"}}

\* a worker enters hide(table_name, data, write_metadata); `fault` names the
\* upload of this call that will fail, if any
PoolHideBegin ==
    /\ tree \in {"memory", "s3"}
    /\ \E w \in Workers, k \in PoolKeys, d \in PoolFrames, wm \in BOOLEAN,
          f \in S3WriteFaults :
          /\ workers[w].pc = "idle"
          /\ k \notin KeysOfOthers(w)
          /\ tree = "memory" => f = "none"
          /\ f = "meta_put" => wm
          /\ workers' = [workers EXCEPT ![w] = [pc |-> "begun", key |-> k, data |-> d,
                                                write_metadata |-> wm, fault |-> f]]
    /\ UNCHANGED <<treeVars, basicsVars, syncVars, qcVars, acornVars, codec, env, batching>>

\* forest.py 201 / 67-71: the statement that stores the dataset
PoolHideStore ==
    /\ \E w \in Workers :
          LET call == workers[w]
          IN  /\ call.pc = "begun"
              /\ IF call.fault = "data_put"
                 THEN /\ workers' = [workers EXCEPT ![w].pc = "raised"]
                      /\ store' = store
                 ELSE /\ workers' = [workers EXCEPT ![w].pc = "stored"]
                      /\ store' = IF tree = "memory"
                                  THEN MemoryTree_hide(store, call.key, call.data)
                                  ELSE Put(store, S3DataKey(call.key), ToParquet(call.data))
    /\ UNCHANGED <<tree, hidden, attempted, tree_last, basicsVars, syncVars, qcVars,
                   acornVars, codec, env, batching>>

\* forest.py 203-204 / 81-82: the sidecar, then the return
PoolHideFinish ==
    /\ \E w \in Workers :
          LET call == workers[w]
          IN  /\ call.pc = "stored"
              /\ IF tree = "s3" /\ call.write_metadata
                 THEN IF call.fault = "meta_put"
                      THEN /\ workers' = [workers EXCEPT ![w].pc = "raised"]
                           /\ store' = store
                      ELSE /\ workers' = [workers EXCEPT ![w].pc = "done"]
                           /\ store' = Put(store, MetadataJsonKey(call.key),
                                           [columns |-> call.data.cols])
                 ELSE /\ workers' = [workers EXCEPT ![w].pc = "done"]
                      /\ store' = store
    /\ UNCHANGED <<tree, hidden, attempted, tree_last, basicsVars, syncVars, qcVars,
                   acornVars, codec, env, batching>>

PoolInit ==
    /\ tree \in {"memory", "s3"}
    /\ store = EmptyDict
    /\ hidden = EmptyDict
    /\ attempted = {}
    /\ tree_last = NoOp
    /\ BasicsIdle
    /\ SyncIdle
    /\ QcIdle
    /\ AcornIdle
    /\ UnitsIdle

PoolNext == PoolHideBegin \/ PoolHideStore \/ PoolHideFinish

SpecPool == PoolInit /\ [][PoolNext]_vars

\* the workers whose call ended, by a return or by an exception
AllFinished == \A w \in Workers : workers[w].pc \in {"done", "raised"}

RECURSIVE HidesInOrder(_, _)
\* the store after the calls of the workers run one after the other in `order`
HidesInOrder(st, order) ==
    IF order = <<>> THEN st
    ELSE LET call == workers[Head(order)]
         IN  HidesInOrder(TREE_hide(tree, st, call.key, call.data, call.write_metadata,
                                    call.fault).store,
                          Tail(order))

\* what scurry(key) returns from a store
DatasetAt(st, key) == TREE_scurry(tree, st, key, FALSE).df

\* the datasets of two stores are the same, key by key
SameDatasets(st1, st2) == \A k \in PoolKeys : DatasetAt(st1, k) = DatasetAt(st2, k)

\* every returned call left its dataset under its key, and once all calls ended
\* the datasets are those of the calls run sequentially, in either order
WritesLand ==
    /\ \A w \in Workers :
          workers[w].pc = "done" => DatasetAt(store, workers[w].key) = workers[w].data
    /\ AllFinished =>
          /\ SameDatasets(store, HidesInOrder(EmptyDict, <<"w1", "w2">>))
          /\ SameDatasets(store, HidesInOrder(EmptyDict, <<"w2", "w1">>))
          /\ tree = "memory" => store = HidesInOrder(EmptyDict, <<"w1", "w2">>)

\* a statement of a call on K1 leaves what scurry(K2) returns, for every other K2
OtherKeysUntouched ==
    \A w \in Workers :
        workers'[w] # workers[w] =>
            \A k \in PoolKeys \ {workers'[w].key} : DatasetAt(store', k) = DatasetAt(store, k)

\* C30: for any interleaving of hide calls issued by different workers on pairwise
\* distinct keys, the final store maps each key to the dataset written by its
\* worker, the same final state as any sequential order of those calls; a write
\* to K1 never changes what scurry(K2) returns for K2 != K1.
C30_DistinctKeyWritesCommute == []WritesLand /\ [][OtherKeysUntouched]_vars

\* two calls on keys of the "qc/" family are both between their store statement
\* and their return, and both datasets are in the store
C30_Witness ==
    /\ workers["w1"].pc = "stored"
    /\ workers["w2"].pc = "stored"
    /\ workers["w1"].key = <<"qc/", "a">>
    /\ workers["w2"].key = <<"qc/", "b">>
    /\ workers["w1"].data # workers["w2"].data
    /\ DatasetAt(store, <<"qc/", "a">>) = workers["w1"].data
    /\ DatasetAt(store, <<"qc/", "b">>) = workers["w2"].data

(***************************************************************************)
(* SpecBatches: the batch loop of asset_basics (lines 90-105) over stale    *)
(* lists long enough to need several batches.  An identifier is stood for   *)
(* by its position in the stale list.                                       *)
(***************************************************************************)
MaxStale == 205

\* keep_ids of the given length, its identifiers distinct
StaleList(n) == [i \in 1..n |-> i]

\* the loop of lines 93-105: one full-field call per batch
FetchBatches ==
    /\ batching.stage = "listed"
    /\ batching' = [stage |-> "batched", keep_ids |-> batching.keep_ids,
                    batches |-> Batches(batching.keep_ids)]
    /\ UNCHANGED <<treeVars, basicsVars, syncVars, qcVars, acornVars, codec, env, workers>>

BatchesInit ==
    /\ batching \in {[stage |-> "listed", keep_ids |-> StaleList(n), batches |-> <<>>] :
                         n \in 0..MaxStale}
    /\ codec = NoCodec
    /\ env = NotRead
    /\ workers = [w \in Workers |-> IdleWorker]
    /\ TreeIdle
    /\ BasicsIdle
    /\ SyncIdle
    /\ QcIdle
    /\ AcornIdle

BatchesNext == FetchBatches

SpecBatches == BatchesInit /\ [][BatchesNext]_vars

RECURSIVE JoinSlices(_)
\* the slices put end to end
JoinSlices(slices) ==
    IF slices = <<>> THEN <<>> ELSE Head(slices) \o JoinSlices(Tail(slices))

\* C33: every full-field remote call requests at most 100 identifiers, the batches
\* are consecutive slices of the stale list, so that every stale identifier is
\* requested in exactly one batch, and the number of calls is ceil(|stale| / 100),
\* zero when nothing is stale.
C33_BatchedFetch ==
    batching.stage = "batched" =>
        LET batches == batching.batches
            stale == Len(batching.keep_ids)
        IN  /\ \A b \in DOMAIN batches : Len(batches[b]) \in 1..100
            /\ JoinSlices(batches) = batching.keep_ids
            /\ Len(batches) * 100 >= stale
            /\ Len(batches) > 0 => (Len(batches) - 1) * 100 < stale
            /\ stale = 0 => batches = <<>>

\* 201 stale identifiers were requested in two full batches and one of a single
\* identifier
C33_Witness ==
    /\ batching.stage = "batched"
    /\ Len(batching.keep_ids) = 201
    /\ Len(batching.batches) = 3
    /\ batching.batches[3] = <<201>>

(***************************************************************************)
(* SpecMerge: MemoryTree.scurry(list) over the keys of two subjects of the  *)
(* qc family and datasets with and without a column asset_name.  The value  *)
(* of an asset_name cell is a name, given like a key by its pieces.         *)
(***************************************************************************)
MergeKeys == {QcKey("s1"), QcKey("s2")}

\* a per-subject qc dataset: one row per metric, asset_name the asset it belongs
\* to (qc.py lines 119-124 and 136)
QcFrame(rows) == [cols |-> QcColumns, rows |-> rows]

MergeFrames ==
    {[cols |-> <<"c1">>, rows |-> <<1>>],
     QcFrame(<<[name |-> "q1", asset_name |-> <<"m1">>]>>),
     QcFrame(<<[name |-> "q1", asset_name |-> <<"m1">>],
               [name |-> "q2", asset_name |-> <<"m2">>]>>)}

MergeHide ==
    /\ tree = "memory"
    /\ \E k \in MergeKeys, d \in MergeFrames :
          AfterHide(k, d, TRUE,
                    [raised |-> FALSE, store |-> MemoryTree_hide(store, k, d)], FALSE)
    /\ UNCHANGED <<tree, basicsVars, syncVars, qcVars, acornVars, unitVars>>

MergeScurryMultiple ==
    /\ tree = "memory"
    /\ \E ks \in SeqsUpTo(MergeKeys, MaxKeyList) :
          AfterRead("scurry_multiple", <<>>, ks, MemoryTree_scurry_multiple(store, ks), FALSE)
    /\ UNCHANGED <<tree, basicsVars, syncVars, qcVars, acornVars, unitVars>>

MergeInit ==
    /\ tree = "memory"
    /\ store = EmptyDict
    /\ hidden = EmptyDict
    /\ attempted = {}
    /\ tree_last = NoOp
    /\ BasicsIdle
    /\ SyncIdle
    /\ QcIdle
    /\ AcornIdle
    /\ UnitsIdle

MergeNext == MergeHide \/ MergeScurryMultiple

SpecMerge == MergeInit /\ [][MergeNext]_vars

\* the stored dataset has a column asset_name of its own
HasAssetName(k) == "asset_name" \in {hidden[k].cols[c] : c \in DOMAIN hidden[k].cols}

\* C39: for every row returned by scurry(list), each column other than the
\* grouping tag holds the value of the stored row, and a stored dataset that
\* already has an asset_name column keeps its own asset_name values in the merged
\* result; the stored datasets themselves are unchanged by the read.
C39_ListReadPreservesStoredValues ==
    tree_last.op = "scurry_multiple" =>
        LET ks == tree_last.keys
            rows == tree_last.df.rows
        IN  /\ Len(rows) = RowsBefore(ks, Len(ks) + 1)
            /\ \A j \in DOMAIN ks : \A i \in 1..RowCount(ks[j]) :
                  LET returned == rows[RowsBefore(ks, j) + i]
                      stored == hidden[ks[j]].rows[i]
                  IN  IF HasAssetName(ks[j])
                      THEN /\ returned.name = stored.name
                           /\ returned.asset_name = stored.asset_name
                      ELSE returned.row = stored
            /\ \A k \in DOMAIN hidden : store[k] = hidden[k]
====
